---- MODULE Spec2Model ----
(***************************************************************************)
(* Real-time detection pipeline of the TCDD C++ server.                    *)
(*                                                                         *)
(* Two threads are modelled: the main thread (initialisation, the          *)
(* pipeline loop and the shutdown sequence of main.cpp) and the server     *)
(* thread (HttpServer::serverLoop).  The environment supplies the signal,  *)
(* the camera outcomes, the detector output, the clock and the HTTP        *)
(* clients.  Variables whose comment says "history" record what happened   *)
(* and are never read by an action's guard.                                *)
(*                                                                         *)
(* Spec is the whole program.  LongRunSpec starts the counters near        *)
(* INT_MAX, PollSpec adds a second client waiting in the listen queue, and *)
(* DetectorSpec follows one Detector::detect call (postprocess, then nms)  *)
(* over bounded network outputs.                                           *)
(* ThresholdSpec does so for several confidence thresholds, FileSpec      *)
(* starts the loop on a video file, CameraSpec follows Camera::initialize  *)
(* backend by backend, QualitySpec starts the loop for several configured  *)
(* JPEG qualities and LabelsSpec starts at Detector::loadClassNames.       *)
(* NmsSpec applies Detector::nms to bounded detection lists, LoggerSpec    *)
(* follows the Logger calls statement by statement and InputSizeSpec       *)
(* follows Detector::initialize for several configured input sizes.        *)
(***************************************************************************)
EXTENDS Integers, Sequences, FiniteSets, TLC

(***************************************************************************)
(* Bounds of the model                                                     *)
(***************************************************************************)
MaxLoop == 2        \* pipeline iterations started (mainLoopCount)
MaxStep == 1        \* largest clock advance between two readings, in ticks
NBuf == 4           \* pixel buffers of the heap
MaxProposals == 3   \* proposals in one network output
MaxCalls == 5       \* Logger calls followed step by step

(***************************************************************************)
(* Program constants                                                       *)
(***************************************************************************)
TicksPerSecond == 1         \* the 1.0 s FPS window, in clock ticks of 1 s
metricsIntervalDefault == 1 \* logging.metricsInterval default 1000 ms, in ticks
jpegQualityDefault == 80
Int32Max == 2147483647
confThreshold == 50         \* detection.confThreshold 0.5, in hundredths
MaxAttempts == 5            \* test reads of a backend that opened

Bufs == 1 .. NBuf
NoImage == << >>

\* Raw images the frame source can deliver: two pixels each.
RawImages == { <<0, 0>> }
\* Colour written by cv::rectangle / cv::putText in drawDetections.
Green == 2

\* a + n on a 32-bit int counter (n >= 0), wrapping around at the top.
AddInt32(a, n) ==
    IF a > Int32Max - n THEN (a - Int32Max - 1) + (n - Int32Max - 1) ELSE a + n

Det(c, conf, box) ==
    [classId |-> c, className |-> ToString(c), confidence |-> conf, box |-> box]

\* Outputs of Detector::detect seen by the pipeline (black box here).
DetLists ==
    { << >>,
      << Det(0, 90, <<10, 10, 100, 100>>), Det(1, 80, <<15, 15, 100, 100>>) >> }

(***************************************************************************)
(* Request text.  A request is a sequence of tokens; std::string::find of  *)
(* a literal is the search for a contiguous run of tokens.                 *)
(***************************************************************************)
CRLF == "\\r\\n"
HTTP11 == " HTTP/1.1"

Requests ==
    { << "GET ", "/video_feed", HTTP11, CRLF >>,
      << "GET ", "/api/detections", HTTP11, CRLF >>,
      << "GET ", "/api/status", HTTP11, CRLF >>,
      << "GET ", "/health", HTTP11, CRLF >>,
      << "GET ", "/x", HTTP11, CRLF >>,
      << "POST ", "/x", "?q=", "GET ", "/health", HTTP11, CRLF >>,
      << "GET ", "/health", "?q=", "GET ", "/video_feed", HTTP11, CRLF >>,
      << "GET ", "/x", HTTP11, CRLF, "GET ", "/api/status", CRLF >>,
      << "GET ", "/health" >> }

\* std::string::find: the first position (1-based) of needle in s, 0 = npos.
Find(s, needle) ==
    LET n == Len(needle)
        hits == { i \in 1 .. (Len(s) - n + 1) : SubSeq(s, i, i + n - 1) = needle }
    IN  IF hits = {} THEN 0
        ELSE CHOOSE i \in hits : \A j \in hits : i <= j

Contains(s, needle) == Find(s, needle) # 0

\* request.substr(0, endLine) with endLine = request.find("\r\n").
RequestLine(request) ==
    SubSeq(request, 1, Find(request, <<CRLF>>) - 1)

\* The if / else-if chain of serverLoop: which branch answers a request.
Route(request) ==
    IF ~Contains(request, <<CRLF>>) THEN "none"
    ELSE LET requestLine == RequestLine(request) IN
         IF Contains(requestLine, <<"GET ", "/video_feed">>) THEN "video_feed"
         ELSE IF Contains(requestLine, <<"GET ", "/api/detections">>) THEN "detections"
         ELSE IF Contains(requestLine, <<"GET ", "/api/status">>) THEN "status"
         ELSE IF Contains(requestLine, <<"GET ", "/health">>) THEN "health"
         ELSE "404"

VARIABLES
    proc,               \* "up", "exit0", "exit1", "sigpipe", "abort", "segv",
                        \*   "undefined" (went on after an undefined read)
    g_running,          \* main.cpp g_running
    args,               \* command line: [disableML, videoFile, usage]
    detector,           \* Detector, and one detect call: [pc, out, decoded,
                        \*   confThreshold, labels, classNames, inputSize]
    mpc,                \* position of the main thread
    camera,             \* Camera: [opened, usingFile, pos, captureCount, frames,
                        \*          geometry, capture, probe]
    logger,             \* Logger: [initialized, isOpen, rows, unflushed, last, call]
    loop,               \* locals of main's loop: counters, clock readings, metrics
    frame,              \* main's cv::Mat frame: buffer id, 0 = empty
    detections,         \* main's std::vector<Detection>
    heap,               \* pixel buffers: buffer id -> image
    srvRunning,         \* HttpServer::running
    thread,             \* HttpServer::serverThread: "none", "joinable", "joined"
    spc,                \* position of the server thread
    currentFrame,       \* HttpServer::currentFrame: buffer id, 0 = empty
    currentDetections,  \* HttpServer::currentDetections
    currentStatus,      \* HttpServer::currentStatus, << >> = null json
    mutex,              \* [frame, detections, status] -> "free", "main", "server"
    conn,               \* the client connection: [state, sent, peer]
    srv,                \* locals of serverLoop: [server_fd, request, frame, response]
    wire,               \* history: what the server sent on the current connection
    hist                \* history: iteration tags and publication log

vars == << proc, g_running, args, detector, mpc, camera, logger, loop, frame, detections,
           heap, srvRunning, thread, spc, currentFrame, currentDetections,
           currentStatus, mutex, conn, srv, wire, hist >>

mainVars == << args, detector, mpc, camera, logger, loop, frame, detections >>
slotVars == << currentFrame, currentDetections, currentStatus >>
srvVars == << spc, conn, srv, wire >>

(***************************************************************************)
(* The heap of pixel buffers.  cv::Mat is a reference-counted handle: a    *)
(* buffer lives while a handle refers to it.                               *)
(***************************************************************************)
\* The buffer a fresh allocation gets: one that no handle refers to.
Alloc(f, c, s) ==
    CHOOSE b \in Bufs : b \notin {f, c, s} /\ \A b2 \in Bufs : b2 \notin {f, c, s} => b <= b2

\* Buffers without a handle are released.
Collect(h, f, c, s) ==
    [b \in Bufs |-> IF b \in {f, c, s} THEN h[b] ELSE NoImage]

\* drawDetections: strokes the box and label of every detection in place.
DrawnImage(img, dets) ==
    IF dets = << >> THEN img ELSE [img EXCEPT ![1] = Green]

NoRow == [total_detections |-> 0, dropped_frames |-> 0]

\* No Logger call is being followed step by step: logMutex is free.  count
\* is the number of calls made, headers the header lines written, result
\* the value the last initialize returned.
NoCall ==
    [ pc |-> "idle", logMutex |-> "free", count |-> 0, headers |-> 0, result |-> TRUE ]

\* Frames of the video file given with --file.
FileFrames == << <<0, 0>>, <<1, 0>>, <<1, 1>> >>

\* Width, height and fps: the defaults of the Camera members and of the
\* config keys camera.width, camera.height, camera.fps.
DefaultGeometry == [width |-> 640, height |-> 480, fps |-> 30]

\* No Camera::initialize call is being followed step by step.
NoProbe ==
    [ pc |-> "idle", requested |-> DefaultGeometry, backend |-> 0, attempt |-> 0,
      tried |-> << >> ]

\* Camera::Camera(): not opened; pos is the read position of the capture,
\* frames the readable frames of the file behind it (none for a device);
\* geometry is the members width, height and fps; capture is the
\* cv::VideoCapture: whether it is open, and the geometry it delivers.
NoCamera ==
    [ opened |-> FALSE, usingFile |-> FALSE, pos |-> 0, captureCount |-> 0,
      frames |-> << >>, geometry |-> DefaultGeometry,
      capture |-> [open |-> FALSE, actual |-> DefaultGeometry],
      probe |-> NoProbe ]

InitLoop ==
    [ mainLoopCount |-> 0, frameCount |-> 0, totalDetections |-> 0,
      droppedFrames |-> 0, sinceFpsStart |-> 0, sinceLastLog |-> 0,
      metricsInterval |-> metricsIntervalDefault,
      jpegQuality |-> jpegQualityDefault,
      metrics |-> [ fps |-> <<0, 1>>, inference_time_ms |-> 0,
                    detections_count |-> 0, total_detections |-> 0,
                    dropped_frames |-> 0 ] ]

InitSrv ==
    [ server_fd |-> -1, request |-> << >>, frame |-> 0, response |-> << >> ]

\* Nothing sent yet: the number of response header blocks sent on the
\* connection, and the message sent by the current pass of the loop body.
NoWire == [headers |-> 0, last |-> << >>, truncated |-> FALSE]

\* encodeJpeg: the bytes cv::imencode makes of an image at a quality setting,
\* kept as a marker, the quality and the pixels.
encodeJpeg(img, quality) ==
    << "jpg", quality >> \o img

\* buildMjpegBoundary: boundary line, two part headers, blank line, the image
\* bytes and a closing CRLF, as one buffer.
buildMjpegBoundary(jpegData) ==
    << "--frame", CRLF, "Content-Type: image/jpeg", CRLF,
       "Content-Length: ", Len(jpegData), CRLF, CRLF >> \o jpegData \o << CRLF >>

\* One part of the multipart stream: the buffer handed to send, with the
\* image and the pipeline iteration it was made from.
MjpegPart(img, quality, iter) ==
    [kind |-> "part", img |-> img, quality |-> quality, iter |-> iter,
     bytes |-> buildMjpegBoundary(encodeJpeg(img, quality))]

NoConn == [state |-> "none", sent |-> FALSE, peer |-> "open", queued |-> FALSE]

InitHist ==
    [ iter |-> 0, frameIter |-> 0, detIter |-> 0, statIter |-> 0,
      pubs |-> << >>, published |-> NoImage, snapshot |-> NoImage,
      snapIter |-> 0, detectCalls |-> 0, setupFailed |-> "",
      sigpipe |-> FALSE, sendFailed |-> FALSE ]

\* What the command line asks for: a run, the help text (-h, --help), or a
\* run with --file or --config as last argument, its path missing.
Usages == { "run", "help", "noPath" }

\* A labels file: whether it can be opened, and the lines std::getline
\* yields from it.
NoFile == [exists |-> FALSE, lines |-> << >>]

\* Width and height of the network input (detection.inputSize).
inputSize == << 6, 6 >>

\* No detect call is being followed step by step; no class names loaded.
NoDetector ==
    [ pc |-> "idle", out |-> << >>, decoded |-> << >>, confThreshold |-> confThreshold,
      labels |-> NoFile, classNames |-> << >>, inputSize |-> inputSize ]

Init ==
    /\ proc = "up"
    /\ g_running = TRUE
    /\ args \in [disableML : BOOLEAN, videoFile : {FALSE}, usage : Usages]
    /\ detector = NoDetector
    /\ mpc = "parseArgs"
    /\ camera = NoCamera
    /\ logger = [initialized |-> FALSE, isOpen |-> FALSE, rows |-> 0, unflushed |-> 0,
                 last |-> NoRow, call |-> NoCall]
    /\ loop = InitLoop
    /\ frame = 0
    /\ detections = << >>
    /\ heap = [b \in Bufs |-> NoImage]
    /\ srvRunning = FALSE
    /\ thread = "none"
    /\ spc = "none"
    /\ currentFrame = 0
    /\ currentDetections = << >>
    /\ currentStatus = << >>
    /\ mutex = [frame |-> "free", detections |-> "free", status |-> "free"]
    /\ conn = NoConn
    /\ srv = InitSrv
    /\ wire = NoWire
    /\ hist = InitHist

(***************************************************************************)
(* Main thread: initialisation (main.cpp 42-184)                           *)
(***************************************************************************)
Up == proc = "up"

\* The server thread is in the streaming loop of /video_feed.
Streaming == spc \in {"mjpegHead", "mjpegLock", "mjpegCopy", "mjpegSend", "mjpegSleep"}

\* return 1 from main during initialisation.
InitFailure ==
    /\ proc' = "exit1"
    /\ mpc' = "returned"

\* Return values of a send of len bytes that was cut short: the buffer was
\* cut inside the boundary line, or only the closing CRLF is missing.
ShortCounts(len) == { 1, len - 1 }

\* signalHandler: clears g_running.  The handler runs on either thread; run
\* on the server thread inside select, it makes select return -1 (EINTR),
\* which leaves the accept loop; run on the server thread inside a send of a
\* part that is blocked with some of the buffer already taken, it makes send
\* return the count of bytes taken, which the stream loop (testing only
\* < 0) treats like a full send.
SignalHandler ==
    /\ Up /\ mpc # "parseArgs"
    /\ g_running' = FALSE
    /\ \/ spc' = spc /\ wire' = wire
       \/ spc = "select" /\ spc' = "closeServer" /\ wire' = wire
       \/ /\ spc = "mjpegSend" /\ conn.peer = "stalled"
          /\ LET part == MjpegPart(heap[srv.frame], jpegQualityDefault,
                                   hist.snapIter) IN
               \E n \in ShortCounts(Len(part.bytes)) :
                  wire' = [wire EXCEPT
                              !.last = [part EXCEPT !.bytes = SubSeq(@, 1, n)],
                              !.truncated = TRUE]
          /\ spc' = "mjpegSleep"
    /\ UNCHANGED << proc, mainVars, heap, srvRunning, thread, slotVars, mutex,
                    conn, srv, hist >>

\* The loop over argv: --help prints the usage and returns 0, a missing
\* path argument returns 1; then the banner, and the signal handlers are
\* installed.
ParseArgs ==
    /\ Up /\ mpc = "parseArgs"
    /\ IF args.usage = "help" THEN proc' = "exit0" /\ mpc' = "returned"
       ELSE IF args.usage = "noPath" THEN InitFailure
       ELSE mpc' = "loadConfig" /\ proc' = proc
    /\ UNCHANGED << g_running, args, detector, camera, logger, loop, frame, detections, heap,
                    srvRunning, thread, slotVars, mutex, srvVars, hist >>

\* config.loadConfig(configPath)
LoadConfig ==
    /\ Up /\ mpc = "loadConfig"
    /\ \E ok \in BOOLEAN :
          IF ok THEN mpc' = "loggerInit" /\ proc' = proc
          ELSE InitFailure
    /\ UNCHANGED << g_running, args, detector, camera, logger, loop, frame, detections, heap,
                    srvRunning, thread, slotVars, mutex, srvVars, hist >>

\* Logger::initialize: opens the file, writes and flushes the header.
LoggerInitialize ==
    /\ Up /\ mpc = "loggerInit"
    /\ \E ok \in BOOLEAN :
          IF ok
          THEN /\ logger' = [logger EXCEPT !.initialized = TRUE, !.isOpen = TRUE]
               /\ mpc' = "cameraInit" /\ proc' = proc
          ELSE /\ InitFailure
               /\ logger' = logger
    /\ UNCHANGED << g_running, args, detector, camera, loop, frame, detections, heap,
                    srvRunning, thread, slotVars, mutex, srvVars, hist >>

\* Variant: a camera that failed to open is only reported, and main goes on.
CameraInitialize_noReturn ==
    /\ Up /\ mpc = "cameraInit"
    /\ \E ok \in BOOLEAN :
          camera' = [camera EXCEPT
                        !.opened = ok,
                        !.capture.open = ok,
                        !.usingFile = args.videoFile,
                        !.frames = IF args.videoFile THEN FileFrames ELSE << >>]
    /\ mpc' = IF args.disableML THEN "serverInit" ELSE "detectorInit"
    /\ UNCHANGED << proc, g_running, args, detector, logger, loop, frame, detections, heap,
                    srvRunning, thread, slotVars, mutex, srvVars, hist >>

\* camera.initializeFromFile(videoFile) or camera.initialize(...)
CameraInitialize ==
    /\ Up /\ mpc = "cameraInit"
    /\ \E ok \in BOOLEAN :
          IF ok
          THEN /\ camera' = [camera EXCEPT
                              !.opened = TRUE,
                              !.capture.open = TRUE,
                              !.usingFile = args.videoFile,
                              !.frames = IF args.videoFile THEN FileFrames ELSE << >>]
               /\ mpc' = IF args.disableML THEN "serverInit" ELSE "detectorInit"
               /\ proc' = proc
          ELSE /\ InitFailure
               /\ camera' = camera
    /\ UNCHANGED << g_running, args, detector, logger, loop, frame, detections, heap,
                    srvRunning, thread, slotVars, mutex, srvVars, hist >>

\* modelPaths.size() < 2, or detector.initialize fails: return 1.
DetectorInitialize ==
    /\ Up /\ mpc = "detectorInit"
    /\ \E ok \in BOOLEAN :
          IF ok THEN mpc' = "serverInit" /\ proc' = proc
          ELSE InitFailure
    /\ UNCHANGED << g_running, args, detector, camera, logger, loop, frame, detections, heap,
                    srvRunning, thread, slotVars, mutex, srvVars, hist >>

\* HttpServer::initialize: stores the port and returns true.
ServerInitialize ==
    /\ Up /\ mpc = "serverInit"
    /\ mpc' = "serverStart"
    /\ UNCHANGED << proc, g_running, args, detector, camera, logger, loop, frame, detections,
                    heap, srvRunning, thread, slotVars, mutex, srvVars, hist >>

\* HttpServer::start: refuses when already running, else creates the thread.
ServerStart ==
    /\ Up /\ mpc = "serverStart"
    /\ IF srvRunning
       THEN /\ InitFailure
            /\ UNCHANGED << srvRunning, thread, spc >>
       ELSE /\ srvRunning' = TRUE
            /\ thread' = "joinable"
            /\ spc' = "socket"
            /\ mpc' = "loopHead"
            /\ proc' = proc
    /\ UNCHANGED << g_running, args, detector, camera, logger, loop, frame, detections, heap,
                    slotVars, mutex, conn, srv, wire, hist >>

(***************************************************************************)
(* Main thread: the pipeline loop (main.cpp 211-317)                       *)
(***************************************************************************)
\* while (g_running) { frameStart = now; mainLoopCount++; ...
LoopHead ==
    /\ Up /\ mpc = "loopHead"
    /\ IF g_running
       THEN /\ loop.mainLoopCount < MaxLoop
            /\ loop' = [loop EXCEPT !.mainLoopCount = @ + 1]
            /\ mpc' = "capture"
       ELSE /\ mpc' = "stop"
            /\ loop' = loop
    /\ UNCHANGED << proc, g_running, args, detector, camera, logger, frame, detections, heap,
                    srvRunning, thread, slotVars, mutex, srvVars, hist >>

\* One capture.read(frame): [ok, img, pos].  A camera read succeeds with any
\* image, fails, or succeeds with an empty image; a file read returns the
\* frame at the read position or fails at the end of the stream.
ReadOutcomes(cam) ==
    IF cam.usingFile
    THEN IF cam.pos < Len(cam.frames)
         THEN { [ok |-> TRUE, img |-> cam.frames[cam.pos + 1], pos |-> cam.pos + 1] }
         ELSE { [ok |-> FALSE, img |-> NoImage, pos |-> cam.pos] }
    ELSE { [ok |-> TRUE, img |-> i, pos |-> 0] : i \in RawImages \cup {NoImage} }
         \cup { [ok |-> FALSE, img |-> NoImage, pos |-> 0] }

\* Camera::captureFrame that reads again at the end of the file without
\* the seek to frame 0.
CaptureOutcomes_noSeek(cam) ==
    IF ~cam.opened THEN { [ok |-> FALSE, img |-> NoImage, pos |-> cam.pos] }
    ELSE UNION {
        IF r.ok
        THEN { [r EXCEPT !.ok = (r.img # NoImage)] }
        ELSE IF cam.usingFile
             THEN { [r2 EXCEPT !.ok = (r2.ok /\ r2.img # NoImage)] :
                        r2 \in ReadOutcomes(cam) }
             ELSE { r }
        : r \in ReadOutcomes(cam) }

\* Camera::captureFrame: [ok, img, pos] results.
CaptureOutcomes(cam) ==
    IF ~cam.opened THEN { [ok |-> FALSE, img |-> NoImage, pos |-> cam.pos] }
    ELSE UNION {
        IF r.ok
        THEN { [r EXCEPT !.ok = (r.img # NoImage)] }
        ELSE IF cam.usingFile
             THEN \* seek to frame 0 and read once more
                  { [r2 EXCEPT !.ok = (r2.ok /\ r2.img # NoImage)] :
                        r2 \in ReadOutcomes([cam EXCEPT !.pos = 0]) }
             ELSE { r }
        : r \in ReadOutcomes(cam) }

\* if (!camera.captureFrame(frame)) { droppedFrames++; sleep 10 ms; continue; }
CaptureFrame ==
    /\ Up /\ mpc = "capture"
    /\ \E r \in CaptureOutcomes(camera) :
          /\ camera' = [camera EXCEPT
                          !.pos = r.pos,
                          !.captureCount = IF camera.opened THEN AddInt32(@, 1) ELSE @]
          /\ IF r.ok
             THEN /\ frame' = Alloc(frame, currentFrame, srv.frame)
                  /\ heap' = [heap EXCEPT ![frame'] = r.img]
                  /\ hist' = [hist EXCEPT !.iter = @ + 1, !.pubs = << >>]
                  /\ loop' = loop
                  /\ mpc' = "detect"
             ELSE /\ loop' = [loop EXCEPT !.droppedFrames = AddInt32(@, 1)]
                  /\ mpc' = "dropSleep"
                  /\ UNCHANGED << frame, heap, hist >>
    /\ UNCHANGED << proc, g_running, args, detector, logger, detections, srvRunning, thread,
                    slotVars, mutex, srvVars >>

\* Variant: break instead of continue.
DropSleep_break ==
    /\ Up /\ mpc = "dropSleep"
    /\ mpc' = "stop"
    /\ UNCHANGED << proc, g_running, args, detector, camera, logger, loop, frame, detections,
                    heap, srvRunning, thread, slotVars, mutex, srvVars, hist >>

\* sleep_for(10 ms); continue;
DropSleep ==
    /\ Up /\ mpc = "dropSleep"
    /\ mpc' = "loopHead"
    /\ UNCHANGED << proc, g_running, args, detector, camera, logger, loop, frame, detections,
                    heap, srvRunning, thread, slotVars, mutex, srvVars, hist >>

\* Variant of the detection step that does not look at mlEnabled.
Detect_always ==
    /\ Up /\ mpc = "detect"
    /\ \E dets \in DetLists :
          /\ detections' = dets
          /\ loop' = [loop EXCEPT
                !.totalDetections = AddInt32(@, Len(dets)),
                !.metrics.inference_time_ms = 1,
                !.metrics.detections_count = Len(dets),
                !.metrics.total_detections = AddInt32(loop.totalDetections, Len(dets))]
          /\ heap' = [heap EXCEPT ![frame] = DrawnImage(@, dets)]
          /\ hist' = [hist EXCEPT !.detectCalls = @ + 1]
    /\ mpc' = "encode"
    /\ UNCHANGED << proc, g_running, args, detector, camera, logger, frame, srvRunning, thread,
                    slotVars, mutex, srvVars >>

\* if (mlEnabled) { detect; metrics; totalDetections += n; draw } else { zeros }
Detect ==
    /\ Up /\ mpc = "detect"
    /\ IF ~args.disableML
       THEN \E dets \in DetLists :
              /\ detections' = dets
              /\ loop' = [loop EXCEPT
                    !.totalDetections = AddInt32(@, Len(dets)),
                    !.metrics.inference_time_ms = 1,
                    !.metrics.detections_count = Len(dets),
                    !.metrics.total_detections = AddInt32(loop.totalDetections, Len(dets))]
              /\ heap' = [heap EXCEPT ![frame] = DrawnImage(@, dets)]
              /\ hist' = [hist EXCEPT !.detectCalls = @ + 1]
       ELSE /\ detections' = << >>
            /\ loop' = [loop EXCEPT
                    !.metrics.inference_time_ms = 0,
                    !.metrics.detections_count = 0,
                    !.metrics.total_detections = 0]
            /\ UNCHANGED << heap, hist >>
    /\ mpc' = "encode"
    /\ UNCHANGED << proc, g_running, args, detector, camera, logger, frame, srvRunning, thread,
                    slotVars, mutex, srvVars >>

\* Variant: the frame is not published, the detections are.
EncodeForTiming_skipFrame ==
    /\ Up /\ mpc = "encode"
    /\ mpc' = "updateDetections"
    /\ UNCHANGED << proc, g_running, args, detector, camera, logger, loop, frame, detections,
                    heap, srvRunning, thread, slotVars, mutex, srvVars, hist >>

\* cv::imencode at the quality config.get<int>("detection.jpegQuality", 80),
\* held in loop.jpegQuality; the buffer is a local of the iteration and only
\* the time taken is kept.
EncodeForTiming ==
    /\ Up /\ mpc = "encode"
    /\ mpc' = "updateFrame"
    /\ UNCHANGED << proc, g_running, args, detector, camera, logger, loop, frame, detections,
                    heap, srvRunning, thread, slotVars, mutex, srvVars, hist >>

\* std::lock_guard<std::mutex> lock(m) of the three update operations.
MainLock(at, m, next) ==
    /\ Up /\ mpc = at
    /\ mutex[m] = "free"
    /\ mutex' = [mutex EXCEPT ![m] = "main"]
    /\ mpc' = next
    /\ UNCHANGED << proc, g_running, args, detector, camera, logger, loop, frame, detections,
                    heap, srvRunning, thread, slotVars, srvVars, hist >>

UpdateFrameLock == MainLock("updateFrame", "frame", "updateFrameCs")

\* Variant: currentFrame = frame, a second handle on the pipeline's buffer.
UpdateFrame_alias ==
    /\ Up /\ mpc = "updateFrameCs"
    /\ currentFrame' = frame
    /\ heap' = Collect(heap, frame, frame, srv.frame)
    /\ mutex' = [mutex EXCEPT !.frame = "free"]
    /\ hist' = [hist EXCEPT !.frameIter = hist.iter,
                            !.pubs = Append(@, "frame"),
                            !.published = heap[frame]]
    /\ mpc' = "updateDetections"
    /\ UNCHANGED << proc, g_running, args, detector, camera, logger, loop, frame, detections,
                    srvRunning, thread, currentDetections, currentStatus, srvVars >>

\* currentFrame = frame.clone(); then the lock is released.
UpdateFrame ==
    /\ Up /\ mpc = "updateFrameCs"
    /\ LET b == Alloc(frame, currentFrame, srv.frame) IN
          /\ currentFrame' = b
          /\ heap' = Collect([heap EXCEPT ![b] = heap[frame]], frame, b, srv.frame)
    /\ mutex' = [mutex EXCEPT !.frame = "free"]
    /\ hist' = [hist EXCEPT !.frameIter = hist.iter,
                            !.pubs = Append(@, "frame"),
                            !.published = heap[frame]]
    /\ mpc' = "updateDetections"
    /\ UNCHANGED << proc, g_running, args, detector, camera, logger, loop, frame, detections,
                    srvRunning, thread, currentDetections, currentStatus, srvVars >>

\* Variant: updateDetections guards its slot with the frame slot's mutex.
UpdateDetectionsLock_frame == MainLock("updateDetections", "frame", "updateDetectionsCs")

UpdateDetectionsLock == MainLock("updateDetections", "detections", "updateDetectionsCs")

\* Variant: the detections slot is written every other iteration only.
UpdateDetections_skipOdd ==
    /\ Up /\ mpc = "updateDetectionsCs"
    /\ IF hist.iter % 2 = 0
       THEN /\ currentDetections' = detections
            /\ hist' = [hist EXCEPT !.detIter = hist.iter,
                                    !.pubs = Append(@, "detections")]
       ELSE /\ currentDetections' = currentDetections
            /\ hist' = [hist EXCEPT !.pubs = Append(@, "detections")]
    /\ mutex' = [mutex EXCEPT !.detections = "free"]
    /\ mpc' = "calcFps"
    /\ UNCHANGED << proc, g_running, args, detector, camera, logger, loop, frame, detections,
                    heap, srvRunning, thread, currentFrame, currentStatus, srvVars >>

\* currentDetections = detections; then the lock is released.
UpdateDetections ==
    /\ Up /\ mpc = "updateDetectionsCs"
    /\ currentDetections' = detections
    /\ mutex' = [mutex EXCEPT !.detections = "free"]
    /\ hist' = [hist EXCEPT !.detIter = hist.iter, !.pubs = Append(@, "detections")]
    /\ mpc' = "calcFps"
    /\ UNCHANGED << proc, g_running, args, detector, camera, logger, loop, frame, detections,
                    heap, srvRunning, thread, currentFrame, currentStatus, srvVars >>

\* frameCount++; now = clock; the 1.0 s window; metrics.dropped_frames.
\* Variant of the FPS step that sets fps but keeps counting in frameCount.
CalcFps_noReset ==
    /\ Up /\ mpc = "calcFps"
    /\ \E d \in 0 .. MaxStep :
          LET count == loop.frameCount + 1
              elapsed == loop.sinceFpsStart + d
          IN  loop' = [loop EXCEPT
                  !.sinceLastLog = @ + d,
                  !.frameCount = count,
                  !.sinceFpsStart = IF elapsed >= TicksPerSecond THEN 0 ELSE elapsed,
                  !.metrics.fps = IF elapsed >= TicksPerSecond
                                  THEN <<count, elapsed>> ELSE @,
                  !.metrics.dropped_frames = loop.droppedFrames]
    /\ mpc' = "updateStatus"
    /\ UNCHANGED << proc, g_running, args, detector, camera, logger, frame, detections, heap,
                    srvRunning, thread, slotVars, mutex, srvVars, hist >>

\* The clock is kept relative to its latest reading: sinceFpsStart is
\* now - fpsStart and sinceLastLog is now - lastLogTime; d is the time that
\* passed since the previous reading.
CalcFps ==
    /\ Up /\ mpc = "calcFps"
    /\ \E d \in 0 .. MaxStep :
          LET count == loop.frameCount + 1
              elapsed == loop.sinceFpsStart + d
          IN  loop' = [loop EXCEPT
                  !.sinceLastLog = @ + d,
                  !.frameCount = IF elapsed >= TicksPerSecond THEN 0 ELSE count,
                  !.sinceFpsStart = IF elapsed >= TicksPerSecond THEN 0 ELSE elapsed,
                  !.metrics.fps = IF elapsed >= TicksPerSecond
                                  THEN <<count, elapsed>> ELSE @,
                  !.metrics.dropped_frames = loop.droppedFrames]
    /\ mpc' = "updateStatus"
    /\ UNCHANGED << proc, g_running, args, detector, camera, logger, frame, detections, heap,
                    srvRunning, thread, slotVars, mutex, srvVars, hist >>

\* Variant of the status record that also carries dropped_frames.
StatusOf_withDropped(metrics) ==
    [ fps |-> metrics.fps,
      inference_time_ms |-> metrics.inference_time_ms,
      detections_count |-> metrics.detections_count,
      total_detections |-> metrics.total_detections,
      dropped_frames |-> metrics.dropped_frames,
      running |-> TRUE ]

\* json status = { fps, inference_time_ms, ..., {"running", true} }
StatusOf(metrics) ==
    [ fps |-> metrics.fps,
      inference_time_ms |-> metrics.inference_time_ms,
      detections_count |-> metrics.detections_count,
      total_detections |-> metrics.total_detections,
      running |-> TRUE ]

UpdateStatusLock == MainLock("updateStatus", "status", "updateStatusCs")

\* currentStatus = status; then the lock is released.
UpdateStatus ==
    /\ Up /\ mpc = "updateStatusCs"
    /\ currentStatus' = StatusOf(loop.metrics)
    /\ mutex' = [mutex EXCEPT !.status = "free"]
    /\ hist' = [hist EXCEPT !.statIter = hist.iter, !.pubs = Append(@, "status")]
    /\ mpc' = "logMetrics"
    /\ UNCHANGED << proc, g_running, args, detector, camera, logger, loop, frame, detections,
                    heap, srvRunning, thread, currentFrame, currentDetections, srvVars >>

\* Logger::logMetrics: a row is appended and flushed when initialised.
LoggerLogMetrics(lg, metrics) ==
    IF ~lg.initialized THEN lg
    ELSE [lg EXCEPT !.rows = @ + 1,
                    !.unflushed = 0,
                    !.last = [total_detections |-> metrics.total_detections,
                              dropped_frames |-> metrics.dropped_frames]]

\* Variant of the logging step that writes a row in every iteration.
LogMetrics_everyIteration ==
    /\ Up /\ mpc = "logMetrics"
    /\ logger' = LoggerLogMetrics(logger, loop.metrics)
    /\ loop' = [loop EXCEPT !.sinceLastLog = 0]
    /\ mpc' = "sleep"
    /\ UNCHANGED << proc, g_running, args, detector, camera, frame, detections, heap,
                    srvRunning, thread, slotVars, mutex, srvVars, hist >>

\* if (logElapsed >= metricsInterval) { logger.logMetrics(metrics); lastLogTime = now; }
LogMetrics ==
    /\ Up /\ mpc = "logMetrics"
    /\ IF loop.sinceLastLog >= loop.metricsInterval
       THEN /\ logger' = LoggerLogMetrics(logger, loop.metrics)
            /\ loop' = [loop EXCEPT !.sinceLastLog = 0]
       ELSE UNCHANGED << logger, loop >>
    /\ mpc' = "sleep"
    /\ UNCHANGED << proc, g_running, args, detector, camera, frame, detections, heap,
                    srvRunning, thread, slotVars, mutex, srvVars, hist >>

\* sleep_for(1 ms); the iteration's frame and detections go out of scope.
Sleep ==
    /\ Up /\ mpc = "sleep"
    /\ frame' = 0
    /\ detections' = << >>
    /\ heap' = Collect(heap, 0, currentFrame, srv.frame)
    /\ mpc' = "loopHead"
    /\ UNCHANGED << proc, g_running, args, detector, camera, logger, loop, srvRunning, thread,
                    slotVars, mutex, srvVars, hist >>

(***************************************************************************)
(* Main thread: shutdown (main.cpp 319-331, HttpServer::stop)              *)
(***************************************************************************)
\* HttpServer::stop: if (running) { running = false; join ... }
Stop ==
    /\ Up /\ mpc = "stop"
    /\ IF srvRunning
       THEN /\ srvRunning' = FALSE
            /\ mpc' = IF thread = "joinable" THEN "join" ELSE "release"
       ELSE /\ srvRunning' = srvRunning
            /\ mpc' = "release"
    /\ UNCHANGED << proc, g_running, args, detector, camera, logger, loop, frame, detections,
                    heap, thread, slotVars, mutex, srvVars, hist >>

\* serverThread->join(): returns when serverLoop has returned.
Join ==
    /\ Up /\ mpc = "join"
    /\ spc = "done"
    /\ thread' = "joined"
    /\ mpc' = "release"
    /\ UNCHANGED << proc, g_running, args, detector, camera, logger, loop, frame, detections,
                    heap, srvRunning, slotVars, mutex, srvVars, hist >>

\* Camera::release
CameraRelease ==
    /\ Up /\ mpc = "release"
    /\ camera' = IF camera.opened
                 THEN [camera EXCEPT !.opened = FALSE, !.capture.open = FALSE]
                 ELSE camera
    /\ mpc' = "loggerClose"
    /\ UNCHANGED << proc, g_running, args, detector, logger, loop, frame, detections, heap,
                    srvRunning, thread, slotVars, mutex, srvVars, hist >>

\* Logger::close
LoggerClose ==
    /\ Up /\ mpc = "loggerClose"
    /\ logger' = IF logger.isOpen
                 THEN [logger EXCEPT !.isOpen = FALSE, !.initialized = FALSE,
                                     !.unflushed = 0]
                 ELSE logger
    /\ mpc' = "return"
    /\ UNCHANGED << proc, g_running, args, detector, camera, loop, frame, detections, heap,
                    srvRunning, thread, slotVars, mutex, srvVars, hist >>

\* return 0: ~HttpServer runs stop(), then the thread handle is destroyed;
\* destroying a joinable std::thread calls std::terminate.
Return ==
    /\ Up /\ mpc = "return"
    /\ ~srvRunning
    /\ proc' = IF thread = "joinable" THEN "abort" ELSE "exit0"
    /\ mpc' = "returned"
    /\ UNCHANGED << g_running, args, detector, camera, logger, loop, frame, detections, heap,
                    srvRunning, thread, slotVars, mutex, srvVars, hist >>

MainStep ==
    \/ ParseArgs \/ LoadConfig \/ LoggerInitialize \/ CameraInitialize \/ DetectorInitialize
    \/ ServerInitialize \/ ServerStart
    \/ LoopHead \/ CaptureFrame \/ DropSleep \/ Detect \/ EncodeForTiming
    \/ UpdateFrameLock \/ UpdateFrame \/ UpdateDetectionsLock \/ UpdateDetections
    \/ CalcFps \/ UpdateStatusLock \/ UpdateStatus \/ LogMetrics \/ Sleep
    \/ Stop \/ Join \/ CameraRelease \/ LoggerClose \/ Return

(***************************************************************************)
(* HTTP clients (environment).  One connection at a time is followed from  *)
(* connect to close.                                                       *)
(***************************************************************************)
Listening == spc \in { "acceptHead", "select", "accept", "read", "route",
                       "mjpegHeader", "mjpegHead", "mjpegLock", "mjpegCopy",
                       "mjpegSend", "mjpegSleep", "detectionsLock", "detectionsCs",
                       "statusLock", "statusCs", "health", "notFound", "send",
                       "closeClient" }

ClientConnect ==
    /\ Up /\ Listening
    /\ conn.state = "none"
    /\ conn' = [conn EXCEPT !.state = "pending"]
    /\ UNCHANGED << proc, g_running, mainVars, heap, srvRunning, thread, slotVars,
                    mutex, spc, srv, wire, hist >>

\* The client sends its request; which bytes they are shows when they are read.
ClientSend ==
    /\ Up
    /\ conn.state \in {"pending", "accepted"}
    /\ conn.peer = "open" /\ ~conn.sent
    /\ conn' = [conn EXCEPT !.sent = TRUE]
    /\ UNCHANGED << proc, g_running, mainVars, heap, srvRunning, thread, slotVars,
                    mutex, spc, srv, wire, hist >>

ClientClose ==
    /\ Up
    /\ conn.state \in {"pending", "accepted"}
    /\ conn.peer \in {"open", "stalled"}
    /\ conn' = [conn EXCEPT !.peer = "closed"]
    /\ UNCHANGED << proc, g_running, mainVars, heap, srvRunning, thread, slotVars,
                    mutex, spc, srv, wire, hist >>

\* A streaming client stops reading: once the socket buffers are full a
\* blocking send does not return until the client reads again or leaves.
\* Only a send notices, so the stall is taken when the server is at one.
ClientStall ==
    /\ Up /\ spc = "mjpegSend"
    /\ conn.peer = "open"
    /\ conn' = [conn EXCEPT !.peer = "stalled"]
    /\ UNCHANGED << proc, g_running, mainVars, heap, srvRunning, thread, slotVars,
                    mutex, spc, srv, wire, hist >>

ClientResume ==
    /\ Up
    /\ conn.peer = "stalled"
    /\ conn' = [conn EXCEPT !.peer = "open"]
    /\ UNCHANGED << proc, g_running, mainVars, heap, srvRunning, thread, slotVars,
                    mutex, spc, srv, wire, hist >>

\* While one connection is being streamed to, a second client connects and
\* sends a poll (GET /api/status, /api/detections or /health): its connection
\* is completed by the kernel and waits in the queue of the listening socket
\* (listen(server_fd, 3)) for the server's next accept.
ClientPoll ==
    /\ Up /\ Streaming
    /\ ~conn.queued
    /\ conn' = [conn EXCEPT !.queued = TRUE]
    /\ UNCHANGED << proc, g_running, mainVars, heap, srvRunning, thread, slotVars,
                    mutex, spc, srv, wire, hist >>

\* The connection the server's next accept finds once the current one is
\* closed: the queued one if there is one.
NextConn ==
    IF conn.queued
    THEN [state |-> "pending", sent |-> TRUE, peer |-> "open", queued |-> FALSE]
    ELSE NoConn

(***************************************************************************)
(* Server thread: HttpServer::serverLoop                                   *)
(***************************************************************************)
\* running = false; return;  after a failed socket set-up call.
SetupFailure(call) ==
    /\ srvRunning' = FALSE
    /\ spc' = "done"
    /\ hist' = [hist EXCEPT !.setupFailed = call]

\* socket(): a descriptor, which may be 0, or -1; only 0 is taken as failure.
SrvSocket ==
    /\ Up /\ spc = "socket"
    /\ \E fd \in {3, 0, -1} :
          /\ srv' = [srv EXCEPT !.server_fd = fd]
          /\ IF fd = 0 THEN SetupFailure("socket")
             ELSE spc' = "setsockopt" /\ UNCHANGED << srvRunning, hist >>
    /\ UNCHANGED << proc, g_running, mainVars, heap, thread, slotVars, mutex,
                    conn, wire >>

\* setsockopt, bind, listen: each may fail; every call fails on descriptor -1.
SrvSetup(at, next) ==
    /\ Up /\ spc = at
    /\ \E ok \in BOOLEAN :
          IF ok /\ srv.server_fd # -1
          THEN spc' = next /\ UNCHANGED << srvRunning, hist >>
          ELSE SetupFailure(at)
    /\ UNCHANGED << proc, g_running, mainVars, heap, thread, slotVars, mutex,
                    conn, srv, wire >>

SrvSetsockopt == SrvSetup("setsockopt", "bind")
SrvBind == SrvSetup("bind", "listen")
SrvListen == SrvSetup("listen", "acceptHead")

\* while (running) of the accept loop.
SrvAcceptHead ==
    /\ Up /\ spc = "acceptHead"
    /\ spc' = IF srvRunning THEN "select" ELSE "closeServer"
    /\ UNCHANGED << proc, g_running, mainVars, heap, srvRunning, thread, slotVars,
                    mutex, conn, srv, wire, hist >>

\* select with a 1 s timeout, then if (activity < 0 || !running) break;
\* it timed out (activity == 0) or a connection is pending.
SrvSelect ==
    /\ Up /\ spc = "select"
    /\ \/ /\ ~srvRunning
          /\ spc' = "closeServer"
       \/ /\ srvRunning /\ conn.state # "pending"
          /\ spc' = "acceptHead"
       \/ /\ srvRunning /\ conn.state = "pending"
          /\ spc' = "accept"
    /\ UNCHANGED << proc, g_running, mainVars, heap, srvRunning, thread, slotVars,
                    mutex, conn, srv, wire, hist >>

\* accept(): a connection the peer has already left may be reported as an error.
SrvAccept ==
    /\ Up /\ spc = "accept"
    /\ \/ /\ conn' = [conn EXCEPT !.state = "accepted"]
          /\ spc' = "read"
       \/ /\ conn.peer = "closed"
          /\ conn' = NextConn
          /\ spc' = "acceptHead"
    /\ UNCHANGED << proc, g_running, mainVars, heap, srvRunning, thread, slotVars,
                    mutex, srv, wire, hist >>

\* read(client_fd, buffer, 4095): blocks until bytes arrive or the peer leaves.
SrvRead ==
    /\ Up /\ spc = "read"
    /\ \/ /\ conn.sent
          /\ \E r \in Requests : srv' = [srv EXCEPT !.request = r]
          /\ spc' = "route"
       \/ /\ ~conn.sent /\ conn.peer = "closed"
          /\ srv' = srv
          /\ spc' = "closeClient"
    /\ UNCHANGED << proc, g_running, mainVars, heap, srvRunning, thread, slotVars,
                    mutex, conn, wire, hist >>

\* The routing chain: where the thread goes for each branch.
RouteTarget(route) ==
    CASE route = "video_feed" -> "mjpegHeader"
      [] route = "detections" -> "detectionsLock"
      [] route = "status"     -> "statusLock"
      [] route = "health"     -> "health"
      [] route = "404"        -> "notFound"
      [] OTHER                -> "closeClient"

\* The request text is not read again once the branch is chosen: it is
\* dropped here rather than at the end of its block.
SrvRoute ==
    /\ Up /\ spc = "route"
    /\ spc' = RouteTarget(Route(srv.request))
    /\ srv' = [srv EXCEPT !.request = << >>]
    /\ UNCHANGED << proc, g_running, mainVars, heap, srvRunning, thread, slotVars,
                    mutex, conn, wire, hist >>

\* Results of send() on the connection: without MSG_NOSIGNAL a send to a
\* connection the peer has closed can raise SIGPIPE, whose default action
\* terminates the process.
SendOutcomes(nosignal) ==
    IF conn.peer = "open" THEN {"ok"}
    ELSE IF conn.peer = "stalled" THEN {}
    ELSE IF nosignal THEN {"ok", "fail"}
    ELSE {"ok", "fail", "sigpipe"}

\* Effect of one send on the process, the wire and the history; drop says
\* that the sender's frame snapshot goes out of scope with this send.
SendEffect(result, msg, drop) ==
    /\ proc' = IF result = "sigpipe" THEN "sigpipe" ELSE proc
    /\ wire' = IF result = "ok"
               THEN [headers |-> wire.headers + (IF msg.kind = "part" THEN 0 ELSE 1),
                     last |-> msg, truncated |-> wire.truncated]
               ELSE wire
    /\ hist' = [hist EXCEPT !.sendFailed = @ \/ (result # "ok"),
                            !.sigpipe = @ \/ (result = "sigpipe"),
                            !.snapshot = IF drop THEN NoImage ELSE @,
                            !.snapIter = IF drop THEN 0 ELSE @]

\* send(client_fd, headers, ..., 0) of the MJPEG response header.
SrvMjpegHeader ==
    /\ Up /\ spc = "mjpegHeader"
    /\ \E result \in SendOutcomes(FALSE) :
          SendEffect(result, [kind |-> "header", status |-> 200,
                              handler |-> "video_feed"], FALSE)
    /\ spc' = "mjpegHead"
    /\ UNCHANGED << g_running, mainVars, heap, srvRunning, thread, slotVars, mutex,
                    conn, srv >>

\* Variant: the streaming loop tests the flag the signal handler clears.
SrvMjpegHead_global ==
    /\ Up /\ spc = "mjpegHead"
    /\ IF g_running
       THEN spc' = "mjpegLock"
       ELSE spc' = "closeClient"
    /\ UNCHANGED << proc, g_running, mainVars, heap, srvRunning, thread, slotVars,
                    mutex, conn, srv, wire, hist >>

\* while (running) of the streaming loop.
SrvMjpegHead ==
    /\ Up /\ spc = "mjpegHead"
    /\ IF srvRunning
       THEN spc' = "mjpegLock"
       ELSE spc' = "closeClient"
    /\ UNCHANGED << proc, g_running, mainVars, heap, srvRunning, thread, slotVars,
                    mutex, conn, srv, wire, hist >>

\* std::lock_guard<std::mutex> lock(m) on the server thread.
SrvLock(at, m, next) ==
    /\ Up /\ spc = at
    /\ mutex[m] = "free"
    /\ mutex' = [mutex EXCEPT ![m] = "server"]
    /\ spc' = next
    /\ UNCHANGED << proc, g_running, mainVars, heap, srvRunning, thread, slotVars,
                    conn, srv, wire, hist >>

SrvMjpegLock == SrvLock("mjpegLock", "frame", "mjpegCopy")

\* Variant: the lock_guard's scope is the whole loop body, so frameMutex
\* stays with the server thread through encode and send.
SrvMjpegCopy_holdLock ==
    /\ Up /\ spc = "mjpegCopy"
    /\ IF currentFrame # 0
       THEN LET b == Alloc(frame, currentFrame, srv.frame) IN
              /\ srv' = [srv EXCEPT !.frame = b]
              /\ heap' = [heap EXCEPT ![b] = heap[currentFrame]]
              /\ hist' = [hist EXCEPT !.snapshot = hist.published,
                                      !.snapIter = hist.frameIter]
              /\ spc' = "mjpegSend"
       ELSE /\ spc' = "mjpegSleep"
            /\ UNCHANGED << srv, heap, hist >>
    /\ UNCHANGED << proc, g_running, mainVars, srvRunning, thread, slotVars, mutex,
                    conn, wire >>

\* if (!currentFrame.empty()) frame = currentFrame.clone();  lock released.
SrvMjpegCopy ==
    /\ Up /\ spc = "mjpegCopy"
    /\ IF currentFrame # 0
       THEN LET b == Alloc(frame, currentFrame, srv.frame) IN
              /\ srv' = [srv EXCEPT !.frame = b]
              /\ heap' = [heap EXCEPT ![b] = heap[currentFrame]]
              /\ hist' = [hist EXCEPT !.snapshot = hist.published,
                                      !.snapIter = hist.frameIter]
              /\ spc' = "mjpegSend"
       ELSE /\ spc' = "mjpegSleep"
            /\ UNCHANGED << srv, heap, hist >>
    /\ mutex' = [mutex EXCEPT !.frame = "free"]
    /\ UNCHANGED << proc, g_running, mainVars, srvRunning, thread, slotVars, conn,
                    wire >>

\* Variant: the part is encoded from the slot at the time of the send, not
\* from the snapshot taken under the lock.
SrvMjpegSend_slot ==
    /\ Up /\ spc = "mjpegSend"
    /\ \E result \in SendOutcomes(TRUE) :
          /\ SendEffect(result,
                MjpegPart(heap[currentFrame], jpegQualityDefault, hist.frameIter),
                result # "ok")
          /\ IF result = "ok"
             THEN /\ srv' = srv
                  /\ heap' = heap
                  /\ spc' = "mjpegSleep"
             ELSE /\ srv' = [srv EXCEPT !.frame = 0]
                  /\ heap' = Collect(heap, frame, currentFrame, 0)
                  /\ spc' = "closeClient"
    /\ UNCHANGED << g_running, mainVars, srvRunning, thread, slotVars, mutex, conn >>

\* send(..., MSG_NOSIGNAL) of one part; a failure leaves the streaming loop.
\* (framesSent, which only feeds the verbose log, is not kept.)
SrvMjpegSend ==
    /\ Up /\ spc = "mjpegSend"
    /\ \E result \in SendOutcomes(TRUE) :
          /\ SendEffect(result,
                MjpegPart(heap[srv.frame], jpegQualityDefault, hist.snapIter),
                result # "ok")
          /\ IF result = "ok"
             THEN /\ srv' = srv
                  /\ heap' = heap
                  /\ spc' = "mjpegSleep"
             ELSE /\ srv' = [srv EXCEPT !.frame = 0]
                  /\ heap' = Collect(heap, frame, currentFrame, 0)
                  /\ spc' = "closeClient"
    /\ UNCHANGED << g_running, mainVars, srvRunning, thread, slotVars, mutex, conn >>

\* usleep(33000); the loop body's frame goes out of scope.
SrvMjpegSleep ==
    /\ Up /\ spc = "mjpegSleep"
    /\ srv' = [srv EXCEPT !.frame = 0]
    /\ heap' = Collect(heap, frame, currentFrame, 0)
    /\ hist' = [hist EXCEPT !.snapshot = NoImage, !.snapIter = 0]
    /\ wire' = [wire EXCEPT !.last = << >>]
    /\ spc' = "mjpegHead"
    /\ UNCHANGED << proc, g_running, mainVars, srvRunning, thread, slotVars, mutex,
                    conn >>

\* handleGetDetections: the JSON document built from the slot.
DetectionsJson(dets) ==
    [ success |-> TRUE,
      detections |-> [i \in 1 .. Len(dets) |->
                        [ class |-> dets[i].className,
                          confidence |-> dets[i].confidence,
                          bbox |-> dets[i].box ]],
      count |-> Len(dets) ]

\* Variant: the slot is dumped whatever it holds (an empty slot dumps as null).
StatusJson_dump(status) ==
    status

\* handleGetStatus: "{}" for an empty slot, else the dumped record.
StatusJson(status) ==
    IF status = << >> THEN "{}" ELSE status

\* handleHealth
HealthJson ==
    [status |-> "ok", server |-> "cpp"]

JsonResponse(handler, body) ==
    [kind |-> "response", status |-> 200, handler |-> handler, body |-> body]

SrvDetectionsLock == SrvLock("detectionsLock", "detections", "detectionsCs")

\* Variant: the handler hands the detections over and leaves the slot empty.
SrvHandleGetDetections_drain ==
    /\ Up /\ spc = "detectionsCs"
    /\ srv' = [srv EXCEPT !.response =
                  JsonResponse("detections", DetectionsJson(currentDetections))]
    /\ currentDetections' = << >>
    /\ mutex' = [mutex EXCEPT !.detections = "free"]
    /\ spc' = "send"
    /\ UNCHANGED << proc, g_running, mainVars, heap, srvRunning, thread,
                    currentFrame, currentStatus, conn, wire, hist >>

SrvHandleGetDetections ==
    /\ Up /\ spc = "detectionsCs"
    /\ srv' = [srv EXCEPT !.response =
                  JsonResponse("detections", DetectionsJson(currentDetections))]
    /\ mutex' = [mutex EXCEPT !.detections = "free"]
    /\ spc' = "send"
    /\ UNCHANGED << proc, g_running, mainVars, heap, srvRunning, thread, slotVars,
                    conn, wire, hist >>

SrvStatusLock == SrvLock("statusLock", "status", "statusCs")

SrvHandleGetStatus ==
    /\ Up /\ spc = "statusCs"
    /\ srv' = [srv EXCEPT !.response =
                  JsonResponse("status", StatusJson(currentStatus))]
    /\ mutex' = [mutex EXCEPT !.status = "free"]
    /\ spc' = "send"
    /\ UNCHANGED << proc, g_running, mainVars, heap, srvRunning, thread, slotVars,
                    conn, wire, hist >>

SrvHandleHealth ==
    /\ Up /\ spc = "health"
    /\ srv' = [srv EXCEPT !.response = JsonResponse("health", HealthJson)]
    /\ spc' = "send"
    /\ UNCHANGED << proc, g_running, mainVars, heap, srvRunning, thread, slotVars,
                    mutex, conn, wire, hist >>

SrvNotFound ==
    /\ Up /\ spc = "notFound"
    /\ srv' = [srv EXCEPT !.response =
                  [kind |-> "response", status |-> 404, handler |-> "404",
                   body |-> "404 Not Found"]]
    /\ spc' = "send"
    /\ UNCHANGED << proc, g_running, mainVars, heap, srvRunning, thread, slotVars,
                    mutex, conn, wire, hist >>

\* send(client_fd, response, ..., 0) of a JSON or 404 response.
SrvSend ==
    /\ Up /\ spc = "send"
    /\ \E result \in SendOutcomes(FALSE) : SendEffect(result, srv.response, FALSE)
    /\ spc' = "closeClient"
    /\ UNCHANGED << g_running, mainVars, heap, srvRunning, thread, slotVars, mutex,
                    conn, srv >>

\* close(client_fd); back to the head of the accept loop.
SrvCloseClient ==
    /\ Up /\ spc = "closeClient"
    /\ conn' = NextConn
    /\ srv' = [srv EXCEPT !.response = << >>]
    /\ wire' = NoWire
    /\ hist' = [hist EXCEPT !.sendFailed = FALSE]
    /\ spc' = "acceptHead"
    /\ UNCHANGED << proc, g_running, mainVars, heap, srvRunning, thread, slotVars,
                    mutex >>

\* close(server_fd); serverLoop returns.
SrvCloseServer ==
    /\ Up /\ spc = "closeServer"
    /\ spc' = "done"
    /\ UNCHANGED << proc, g_running, mainVars, heap, srvRunning, thread, slotVars,
                    mutex, conn, srv, wire, hist >>

ServerStep ==
    \/ SrvSocket \/ SrvSetsockopt \/ SrvBind \/ SrvListen
    \/ SrvAcceptHead \/ SrvSelect \/ SrvAccept \/ SrvRead \/ SrvRoute
    \/ SrvMjpegHeader \/ SrvMjpegHead \/ SrvMjpegLock \/ SrvMjpegCopy
    \/ SrvMjpegSend \/ SrvMjpegSleep
    \/ SrvDetectionsLock \/ SrvHandleGetDetections
    \/ SrvStatusLock \/ SrvHandleGetStatus
    \/ SrvHandleHealth \/ SrvNotFound \/ SrvSend
    \/ SrvCloseClient \/ SrvCloseServer

ClientStep ==
    ClientConnect \/ ClientSend \/ ClientClose \/ ClientStall \/ ClientResume

Next == SignalHandler \/ MainStep \/ ServerStep \/ ClientStep

Spec == Init /\ [][Next]_vars

(***************************************************************************)
(* A long run.  The counters of main are ints that only grow, so their     *)
(* top is reached after 2^31 increments, further than a state-by-state     *)
(* search from Init can walk.  LongRunSpec starts at the loop head of a    *)
(* run that is already there: 1073741823 successful iterations with two    *)
(* detections each have been made, the last of them logged a row, no       *)
(* capture has failed, and no client is connected.  mainLoopCount, which   *)
(* feeds only the verbose log, counts the iterations followed from here.   *)
(***************************************************************************)
LongRunIterations == Int32Max \div 2

LongRunDetections ==
    << Det(0, 90, <<10, 10, 100, 100>>), Det(1, 80, <<15, 15, 100, 100>>) >>

LongRunMetrics ==
    [ fps |-> <<1, 1>>, inference_time_ms |-> 1, detections_count |-> 2,
      total_detections |-> 2 * LongRunIterations, dropped_frames |-> 0 ]

LongRunInit ==
    /\ proc = "up"
    /\ g_running = TRUE
    /\ args = [disableML |-> FALSE, videoFile |-> FALSE, usage |-> "run"]
    /\ detector = NoDetector
    /\ mpc = "loopHead"
    /\ camera = [NoCamera EXCEPT !.opened = TRUE, !.capture.open = TRUE,
                                 !.captureCount = LongRunIterations]
    /\ logger = [initialized |-> TRUE, isOpen |-> TRUE, rows |-> 1, unflushed |-> 0,
                 last |-> [total_detections |-> 2 * LongRunIterations,
                           dropped_frames |-> 0],
                 call |-> NoCall]
    /\ loop = [InitLoop EXCEPT !.totalDetections = 2 * LongRunIterations,
                               !.metrics = LongRunMetrics]
    /\ frame = 0
    /\ detections = << >>
    /\ heap = [b \in Bufs |-> IF b = 1 THEN << Green, 0 >> ELSE NoImage]
    /\ srvRunning = TRUE
    /\ thread = "joinable"
    /\ spc = "acceptHead"
    /\ currentFrame = 1
    /\ currentDetections = LongRunDetections
    /\ currentStatus = StatusOf(LongRunMetrics)
    /\ mutex = [frame |-> "free", detections |-> "free", status |-> "free"]
    /\ conn = NoConn
    /\ srv = [InitSrv EXCEPT !.server_fd = 3]
    /\ wire = NoWire
    /\ hist = [InitHist EXCEPT !.iter = LongRunIterations,
                               !.frameIter = LongRunIterations,
                               !.detIter = LongRunIterations,
                               !.statIter = LongRunIterations,
                               !.pubs = << "frame", "detections", "status" >>,
                               !.published = << Green, 0 >>,
                               !.detectCalls = LongRunIterations]

LongRunNext ==
    \/ SignalHandler
    \/ LoopHead \/ CaptureFrame \/ DropSleep \/ Detect \/ EncodeForTiming
    \/ UpdateFrameLock \/ UpdateFrame \/ UpdateDetectionsLock \/ UpdateDetections
    \/ CalcFps \/ UpdateStatusLock \/ UpdateStatus \/ LogMetrics \/ Sleep
    \/ Stop \/ Join \/ CameraRelease \/ LoggerClose \/ Return
    \/ SrvAcceptHead \/ SrvSelect \/ SrvAccept \/ SrvRead \/ SrvRoute
    \/ SrvMjpegHeader \/ SrvMjpegHead \/ SrvMjpegLock \/ SrvMjpegCopy
    \/ SrvMjpegSend \/ SrvMjpegSleep
    \/ SrvDetectionsLock \/ SrvHandleGetDetections
    \/ SrvStatusLock \/ SrvHandleGetStatus
    \/ SrvHandleHealth \/ SrvNotFound \/ SrvSend
    \/ SrvCloseClient \/ SrvCloseServer
    \/ ClientStep

LongRunSpec == LongRunInit /\ [][LongRunNext]_vars

(***************************************************************************)
(* The pipeline loop on a video file (--file, with --no-ml).  FileSpec      *)
(* starts at the loop head after k calls of captureFrame, for every file   *)
(* of Files and every k up to the length of the file, and follows the      *)
(* pipeline thread through its loop; the server thread waits in its        *)
(* accept loop and no signal arrives.                                      *)
(***************************************************************************)
\* Video files: three readable frames, one readable frame, and a file that
\* opens but has no readable frame.
Files == { FileFrames, << FileFrames[1] >>, << >> }

\* The state at the loop head when captureFrame has returned k frames of
\* the file and no clock tick has passed.
FileStart(file, k) ==
    /\ proc = "up"
    /\ g_running = TRUE
    /\ args = [disableML |-> TRUE, videoFile |-> TRUE, usage |-> "run"]
    /\ detector = NoDetector
    /\ mpc = "loopHead"
    /\ camera = [NoCamera EXCEPT !.opened = TRUE, !.usingFile = TRUE, !.pos = k,
                                 !.captureCount = k, !.frames = file,
                                 !.capture.open = TRUE]
    /\ logger = [initialized |-> TRUE, isOpen |-> TRUE, rows |-> 0, unflushed |-> 0,
                 last |-> NoRow, call |-> NoCall]
    /\ loop = [InitLoop EXCEPT !.frameCount = k]
    /\ frame = 0
    /\ detections = << >>
    /\ heap = [b \in Bufs |-> IF b = 1 /\ k > 0 THEN file[k] ELSE NoImage]
    /\ srvRunning = TRUE
    /\ thread = "joinable"
    /\ spc = "acceptHead"
    /\ currentFrame = IF k > 0 THEN 1 ELSE 0
    /\ currentDetections = << >>
    /\ currentStatus = IF k > 0 THEN StatusOf(InitLoop.metrics) ELSE << >>
    /\ mutex = [frame |-> "free", detections |-> "free", status |-> "free"]
    /\ conn = NoConn
    /\ srv = [InitSrv EXCEPT !.server_fd = 3]
    /\ wire = NoWire
    /\ hist = [InitHist EXCEPT !.iter = k, !.frameIter = k, !.detIter = k,
                               !.statIter = k,
                               !.pubs = IF k > 0 THEN << "frame", "detections", "status" >>
                                        ELSE << >>,
                               !.published = IF k > 0 THEN file[k] ELSE NoImage]

FileInit == \E file \in Files : \E k \in 0 .. Len(file) : FileStart(file, k)

FileNext ==
    \/ LoopHead \/ CaptureFrame \/ DropSleep \/ Detect \/ EncodeForTiming
    \/ UpdateFrameLock \/ UpdateFrame \/ UpdateDetectionsLock \/ UpdateDetections
    \/ CalcFps \/ UpdateStatusLock \/ UpdateStatus \/ LogMetrics \/ Sleep

FileSpec == FileInit /\ [][FileNext]_vars

(***************************************************************************)
(* Camera::initialize, step by step: tryOpenCamera goes through the        *)
(* backends, opens each, and test-reads a frame from one that opened.      *)
(* Whether a backend opens, whether a test read yields a frame, and the    *)
(* geometry the capture delivers are the environment's choice.             *)
(* camera.probe follows the call: its arguments, the backend being tried   *)
(* (its index in Backends), the test reads made of it, and what became of  *)
(* the backends tried so far.                                              *)
(***************************************************************************)
Backends == << "GStreamer-libcamera", "GStreamer-auto", "V4L2", "ANY" >>

\* Geometries a capture may deliver, and the config may ask for.
Geometries == { DefaultGeometry, [width |-> 1280, height |-> 720, fps |-> 15] }

CameraUnchanged ==
    UNCHANGED << proc, g_running, args, detector, mpc, logger, loop, frame, detections,
                 heap, srvRunning, thread, slotVars, mutex, srvVars, hist >>

\* The probe after the backend being tried has failed with the result why:
\* on to the next backend, or out of the loop when it was the last.
NextBackend(pr, why) ==
    [pr EXCEPT !.tried = Append(@, why),
               !.attempt = 0,
               !.backend = IF @ < Len(Backends) THEN @ + 1 ELSE @,
               !.pc = IF pr.backend < Len(Backends) THEN "open" ELSE "failed"]

\* Camera::initialize up to the call of tryOpenCamera: stores its arguments.
CamInitialize ==
    /\ camera.probe.pc = "initialize"
    /\ camera' = [camera EXCEPT !.geometry = camera.probe.requested,
                                !.usingFile = FALSE,
                                !.probe.pc = "open",
                                !.probe.backend = 1]
    /\ CameraUnchanged

\* backend.openFunc(capture)
CamOpen ==
    /\ camera.probe.pc = "open"
    /\ \E ok \in BOOLEAN : \E g \in Geometries :
          camera' = IF ok
                    THEN [camera EXCEPT !.capture = [open |-> TRUE, actual |-> g],
                                        !.probe.pc = "read",
                                        !.probe.attempt = 0]
                    ELSE [camera EXCEPT !.probe = NextBackend(@, "noOpen")]
    /\ CameraUnchanged

\* Variant of CamRead: the test reads go on to a sixth attempt.
CamRead_sixth ==
    /\ camera.probe.pc = "read"
    /\ \E canRead \in BOOLEAN :
          camera' = [camera EXCEPT
                        !.probe.attempt = @ + 1,
                        !.probe.pc = IF canRead THEN "accept"
                                     ELSE IF camera.probe.attempt + 1 <= MaxAttempts
                                          THEN "read" ELSE "release"]
    /\ CameraUnchanged

\* One pass of the loop over attempt: capture.read(testFrame) and the test
\* of the frame, the 200 ms sleep after a failure.
CamRead ==
    /\ camera.probe.pc = "read"
    /\ \E canRead \in BOOLEAN :
          camera' = [camera EXCEPT
                        !.probe.attempt = @ + 1,
                        !.probe.pc = IF canRead THEN "accept"
                                     ELSE IF camera.probe.attempt + 1 < MaxAttempts
                                          THEN "read" ELSE "release"]
    /\ CameraUnchanged

\* if (canRead): the properties are set on the V4L2 and ANY backends, which
\* the driver may or may not follow; the actual values are read and
\* printed; opened = true; return true.
CamAccept ==
    /\ camera.probe.pc = "accept"
    /\ \E g \in Geometries :
          /\ Backends[camera.probe.backend] \notin {"V4L2", "ANY"} => g = camera.capture.actual
          /\ camera' = [camera EXCEPT !.capture.actual = g,
                                      !.opened = TRUE,
                                      !.probe.tried = Append(@, "ok"),
                                      !.probe.pc = "done"]
    /\ CameraUnchanged

\* else: capture.release(), and the loop goes on with the next backend.
CamRelease ==
    /\ camera.probe.pc = "release"
    /\ camera' = [camera EXCEPT !.capture.open = FALSE,
                                !.probe = NextBackend(@, "noFrame")]
    /\ CameraUnchanged

\* The program inside camera.initialize(...) of main, for every geometry
\* the config may ask for.
CameraInit ==
    /\ proc = "up"
    /\ g_running = TRUE
    /\ args = [disableML |-> FALSE, videoFile |-> FALSE, usage |-> "run"]
    /\ detector = NoDetector
    /\ mpc = "cameraInit"
    /\ camera \in { [NoCamera EXCEPT !.probe.pc = "initialize", !.probe.requested = g] :
                        g \in Geometries }
    /\ logger = [initialized |-> TRUE, isOpen |-> TRUE, rows |-> 0, unflushed |-> 0,
                 last |-> NoRow, call |-> NoCall]
    /\ loop = InitLoop
    /\ frame = 0
    /\ detections = << >>
    /\ heap = [b \in Bufs |-> NoImage]
    /\ srvRunning = FALSE
    /\ thread = "none"
    /\ spc = "none"
    /\ currentFrame = 0
    /\ currentDetections = << >>
    /\ currentStatus = << >>
    /\ mutex = [frame |-> "free", detections |-> "free", status |-> "free"]
    /\ conn = NoConn
    /\ srv = InitSrv
    /\ wire = NoWire
    /\ hist = InitHist

CameraNext == CamInitialize \/ CamOpen \/ CamRead \/ CamAccept \/ CamRelease

CameraSpec == CameraInit /\ [][CameraNext]_vars

(***************************************************************************)
(* The program for every configured JPEG quality.  QualitySpec starts      *)
(* when initialisation has ended (--no-ml), with the config key            *)
(* detection.jpegQuality absent (the default) or set to a value of         *)
(* Qualities.                                                              *)
(***************************************************************************)
Qualities == { 1, jpegQualityDefault, 100 }

QualityInit ==
    /\ proc = "up"
    /\ g_running = TRUE
    /\ args = [disableML |-> TRUE, videoFile |-> FALSE, usage |-> "run"]
    /\ detector = NoDetector
    /\ mpc = "loopHead"
    /\ camera = [NoCamera EXCEPT !.opened = TRUE, !.capture.open = TRUE]
    /\ logger = [initialized |-> TRUE, isOpen |-> TRUE, rows |-> 0, unflushed |-> 0,
                 last |-> NoRow, call |-> NoCall]
    /\ loop \in { [InitLoop EXCEPT !.jpegQuality = q] : q \in Qualities }
    /\ frame = 0
    /\ detections = << >>
    /\ heap = [b \in Bufs |-> NoImage]
    /\ srvRunning = TRUE
    /\ thread = "joinable"
    /\ spc = "socket"
    /\ currentFrame = 0
    /\ currentDetections = << >>
    /\ currentStatus = << >>
    /\ mutex = [frame |-> "free", detections |-> "free", status |-> "free"]
    /\ conn = NoConn
    /\ srv = InitSrv
    /\ wire = NoWire
    /\ hist = InitHist

QualityNext ==
    \/ SrvSocket \/ SrvSetsockopt \/ SrvBind \/ SrvListen
    \/ LongRunNext

QualitySpec == QualityInit /\ [][QualityNext]_vars

(***************************************************************************)
(* Polls during a stream.  PollSpec adds the second client of ClientPoll   *)
(* to the program, and says that both threads keep being scheduled: a      *)
(* step of the pipeline thread or of the server thread that stays possible *)
(* is taken.  Nothing is assumed of the clients.                           *)
(***************************************************************************)
PollNext == Next \/ ClientPoll

PollSpec == Init /\ [][PollNext]_vars /\ WF_vars(MainStep) /\ WF_vars(ServerStep)

(***************************************************************************)
(* Detector::detect, step by step: postprocess decodes the network output  *)
(* into detections, nms thins them out.  The network output is any list    *)
(* of up to MaxProposals proposals; the image is ImageSize, the network    *)
(* input inputSize.  Centres and sizes are whole numbers, so that the      *)
(* float arithmetic of the decoder is exact and is written here with       *)
(* integers; a confidence is held in hundredths.                           *)
(***************************************************************************)
ImageSize == << 9, 12 >>

iouThreshold == << 1, 2 >>

\* One proposal: centre, size, and one score per class.
Proposals ==
    [ cx : {2, 3}, cy : {3}, w : {-4, 0, 4}, h : {4},
      scores : { <<90, 10>>, <<60, 10>>, <<10, 90>>, <<40, 30>> } ]

\* Network outputs: the lists of at most MaxProposals proposals.
Outputs ==
    UNION { [1 .. n -> Proposals] : n \in 0 .. MaxProposals }

Max(a, b) == IF a >= b THEN a ELSE b

Min(a, b) == IF a <= b THEN a ELSE b

\* (int)(a / b) for b > 0: the conversion drops the fraction.
TruncDiv(a, b) == IF a >= 0 THEN a \div b ELSE -((-a) \div b)

\* The best class of a proposal: the first class with the highest score
\* above 0, class 0 with confidence 0 when there is none.
RECURSIVE BestFrom(_, _, _, _)
BestFrom(scores, c, bestClass, bestConf) ==
    IF c > Len(scores) THEN << bestClass, bestConf >>
    ELSE IF scores[c] > bestConf
         THEN BestFrom(scores, c + 1, c - 1, scores[c])
         ELSE BestFrom(scores, c + 1, bestClass, bestConf)

\* (int)((c -+ size / 2) * scale), with twice the bracket as argument and
\* scale = img / input, then clamped into 0 .. img - 1.
Corner(twice, img, input) ==
    Max(0, Min(TruncDiv(twice * img, 2 * input), img - 1))

\* The name of class c: its entry in classNames, std::to_string(c) when
\* there is none.
ClassName(c, classNames) ==
    IF c < Len(classNames) THEN classNames[c + 1] ELSE ToString(c)

\* The detection decoded from one proposal.
Decode(p, imgWidth, imgHeight) ==
    LET best == BestFrom(p.scores, 1, 0, 0)
        x1 == Corner(2 * p.cx - p.w, imgWidth, detector.inputSize[1])
        y1 == Corner(2 * p.cy - p.h, imgHeight, detector.inputSize[2])
        x2 == Corner(2 * p.cx + p.w, imgWidth, detector.inputSize[1])
        y2 == Corner(2 * p.cy + p.h, imgHeight, detector.inputSize[2])
    IN  [Det(best[1], best[2], << x1, y1, x2 - x1, y2 - y1 >>)
            EXCEPT !.className = ClassName(best[1], detector.classNames)]

\* Detector::postprocess that also drops a proposal whose best score
\* equals confThreshold.
RECURSIVE postprocess_dropEqual(_, _, _)
postprocess_dropEqual(output, imgWidth, imgHeight) ==
    IF output = << >> THEN << >>
    ELSE LET p == Head(output)
             rest == postprocess_dropEqual(Tail(output), imgWidth, imgHeight)
         IN  IF BestFrom(p.scores, 1, 0, 0)[2] <= detector.confThreshold
             THEN rest
             ELSE << Decode(p, imgWidth, imgHeight) >> \o rest

\* Detector::postprocess: the proposals whose best score reaches
\* confThreshold, decoded, in the order of the output.
RECURSIVE postprocess(_, _, _)
postprocess(output, imgWidth, imgHeight) ==
    IF output = << >> THEN << >>
    ELSE LET p == Head(output)
             rest == postprocess(Tail(output), imgWidth, imgHeight)
         IN  IF BestFrom(p.scores, 1, 0, 0)[2] < detector.confThreshold
             THEN rest
             ELSE << Decode(p, imgWidth, imgHeight) >> \o rest

\* Detector::calculateIoU: the quotient (float)intersectionArea / unionArea,
\* kept as the pair of its two terms.
calculateIoU(box1, box2) ==
    LET x1 == Max(box1[1], box2[1])
        y1 == Max(box1[2], box2[2])
        x2 == Min(box1[1] + box1[3], box2[1] + box2[3])
        y2 == Min(box1[2] + box1[4], box2[2] + box2[4])
        intersectionArea == Max(0, x2 - x1) * Max(0, y2 - y1)
        box1Area == box1[3] * box1[4]
        box2Area == box2[3] * box2[4]
        unionArea == box1Area + box2Area - intersectionArea
    IN  << intersectionArea, unionArea >>

\* q > t for a float quotient q and a threshold t = t[1] / t[2]: a quotient
\* over 0 is +infinity, or NaN (0 / 0), which no comparison holds for.
Greater(q, t) ==
    IF q[2] = 0 THEN q[1] > 0
    ELSE IF q[2] > 0 THEN q[1] * t[2] > t[1] * q[2]
    ELSE q[1] * t[2] < t[1] * q[2]

\* q <= t, in the same arithmetic.
LessEq(q, t) ==
    IF q[2] = 0 THEN FALSE
    ELSE IF q[2] > 0 THEN q[1] * t[2] <= t[1] * q[2]
    ELSE q[1] * t[2] >= t[1] * q[2]

\* std::sort by confidence, descending: the orders it may leave a list in
\* (the order of detections of equal confidence is not specified).
SortedOrders(dets) ==
    LET n == Len(dets)
        perms == { f \in [1 .. n -> 1 .. n] : \A i, j \in 1 .. n : f[i] = f[j] => i = j }
    IN  { [i \in 1 .. n |-> dets[f[i]]] : f \in
            { g \in perms : \A i \in 1 .. n - 1 :
                               dets[g[i]].confidence >= dets[g[i + 1]].confidence } }

\* The loop over i of nms without the test of the class ids.
RECURSIVE Suppress_anyClass(_, _, _)
Suppress_anyClass(dets, i, suppressed) ==
    IF i > Len(dets) THEN suppressed
    ELSE IF i \in suppressed THEN Suppress_anyClass(dets, i + 1, suppressed)
    ELSE Suppress_anyClass(dets, i + 1,
            suppressed \cup
               { j \in i + 1 .. Len(dets) :
                    /\ j \notin suppressed
                    /\ Greater(calculateIoU(dets[i].box, dets[j].box), iouThreshold) })

\* The loop over i of nms without "if (suppressed[i]) continue".
RECURSIVE Suppress_bySuppressed(_, _, _)
Suppress_bySuppressed(dets, i, suppressed) ==
    IF i > Len(dets) THEN suppressed
    ELSE Suppress_bySuppressed(dets, i + 1,
            suppressed \cup
               { j \in i + 1 .. Len(dets) :
                    /\ j \notin suppressed
                    /\ dets[i].classId = dets[j].classId
                    /\ Greater(calculateIoU(dets[i].box, dets[j].box), iouThreshold) })

\* The loop over i of nms: the indices suppressed once i has run to the end.
RECURSIVE Suppress(_, _, _)
Suppress(dets, i, suppressed) ==
    IF i > Len(dets) THEN suppressed
    ELSE IF i \in suppressed THEN Suppress(dets, i + 1, suppressed)
    ELSE Suppress(dets, i + 1,
            suppressed \cup
               { j \in i + 1 .. Len(dets) :
                    /\ j \notin suppressed
                    /\ dets[i].classId = dets[j].classId
                    /\ Greater(calculateIoU(dets[i].box, dets[j].box), iouThreshold) })

\* erase(remove_if(...)): the detections not suppressed, in order.
RECURSIVE Remove(_, _, _)
Remove(dets, i, suppressed) ==
    IF i > Len(dets) THEN << >>
    ELSE (IF i \in suppressed THEN << >> ELSE << dets[i] >>)
            \o Remove(dets, i + 1, suppressed)

\* Detector::nms on a list already sorted.
nms(sorted) == Remove(sorted, 1, Suppress(sorted, 1, {}))

\* detections = postprocess(out, frame.cols, frame.rows)
Postprocess ==
    /\ detector.pc = "postprocess"
    /\ LET decoded == postprocess(detector.out, ImageSize[1], ImageSize[2]) IN
          /\ detections' = decoded
          /\ detector' = [detector EXCEPT !.pc = "nms", !.decoded = decoded]
    /\ UNCHANGED << proc, g_running, args, mpc, camera, logger, loop, frame, heap,
                    srvRunning, thread, slotVars, mutex, srvVars, hist >>

\* nms(detections)
Nms ==
    /\ detector.pc = "nms"
    /\ \E sorted \in SortedOrders(detections) : detections' = nms(sorted)
    /\ detector' = [detector EXCEPT !.pc = "done"]
    /\ UNCHANGED << proc, g_running, args, mpc, camera, logger, loop, frame, heap,
                    srvRunning, thread, slotVars, mutex, srvVars, hist >>

\* The state in which detect is entered, for a network output of the set
\* outputs and a confidence threshold of the set thresholds.
DetectorStart(outputs, thresholds) ==
    /\ proc = "up"
    /\ g_running = TRUE
    /\ args = [disableML |-> FALSE, videoFile |-> FALSE, usage |-> "run"]
    /\ detector \in { [NoDetector EXCEPT !.pc = "postprocess", !.out = o,
                                          !.confThreshold = t] :
                          o \in outputs, t \in thresholds }
    /\ mpc = "detect"
    /\ camera = [NoCamera EXCEPT !.opened = TRUE, !.capture.open = TRUE]
    /\ logger = [initialized |-> TRUE, isOpen |-> TRUE, rows |-> 0, unflushed |-> 0,
                 last |-> NoRow, call |-> NoCall]
    /\ loop = InitLoop
    /\ frame = 1
    /\ detections = << >>
    /\ heap = [b \in Bufs |-> IF b = 1 THEN << 0, 0 >> ELSE NoImage]
    /\ srvRunning = TRUE
    /\ thread = "joinable"
    /\ spc = "acceptHead"
    /\ currentFrame = 0
    /\ currentDetections = << >>
    /\ currentStatus = << >>
    /\ mutex = [frame |-> "free", detections |-> "free", status |-> "free"]
    /\ conn = NoConn
    /\ srv = [InitSrv EXCEPT !.server_fd = 3]
    /\ wire = NoWire
    /\ hist = InitHist

DetectorInit == DetectorStart(Outputs, {confThreshold})

DetectorNext == Postprocess \/ Nms

DetectorSpec == DetectorInit /\ [][DetectorNext]_vars

(***************************************************************************)
(* The Logger, call by call.  LoggerSpec starts with the Logger as         *)
(* constructed and follows every sequence of at most MaxCalls calls of     *)
(* initialize, logMetrics and close that one thread makes, each through    *)
(* its lock_guard, its tests and its writes.                               *)
(***************************************************************************)
\* A call is entered.  initialize and close begin with the lock_guard;
\* logMetrics begins with the test of initialized.
LogCall ==
    /\ logger.call.pc = "idle" /\ logger.call.count < MaxCalls
    /\ \E op \in { "initialize", "logCheck", "close" } :
          logger' = [logger EXCEPT
                        !.call.pc = op,
                        !.call.count = @ + 1,
                        !.call.logMutex = IF op = "logCheck" THEN "free" ELSE "main"]
    /\ UNCHANGED << proc, g_running, args, detector, mpc, camera, loop, frame, detections,
                    heap, srvRunning, thread, slotVars, mutex, srvVars, hist >>

\* Logger::initialize behind its lock_guard: returns true at once when
\* initialized; else opens the file (ok), writes the header when the file
\* is empty (new), sets initialized; the lock is released on return.
LogInitialize ==
    /\ logger.call.pc = "initialize"
    /\ \E ok, new \in BOOLEAN :
          logger' =
             IF logger.initialized
             THEN [logger EXCEPT !.call.pc = "idle", !.call.logMutex = "free",
                                 !.call.result = TRUE]
             ELSE IF ok
             THEN [logger EXCEPT !.isOpen = TRUE, !.initialized = TRUE,
                                 !.call.headers = IF new THEN @ + 1 ELSE @,
                                 !.call.pc = "idle", !.call.logMutex = "free",
                                 !.call.result = TRUE]
             ELSE [logger EXCEPT !.call.pc = "idle", !.call.logMutex = "free",
                                 !.call.result = FALSE]
    /\ UNCHANGED << proc, g_running, args, detector, mpc, camera, loop, frame, detections,
                    heap, srvRunning, thread, slotVars, mutex, srvVars, hist >>

\* if (!initialized) return;
LogCheck ==
    /\ logger.call.pc = "logCheck"
    /\ logger' = [logger EXCEPT !.call.pc = IF logger.initialized THEN "logLock" ELSE "idle"]
    /\ UNCHANGED << proc, g_running, args, detector, mpc, camera, loop, frame, detections,
                    heap, srvRunning, thread, slotVars, mutex, srvVars, hist >>

\* std::lock_guard<std::mutex> lock(logMutex) of logMetrics.
LogLock ==
    /\ logger.call.pc = "logLock" /\ logger.call.logMutex = "free"
    /\ logger' = [logger EXCEPT !.call.pc = "logWrite", !.call.logMutex = "main"]
    /\ UNCHANGED << proc, g_running, args, detector, mpc, camera, loop, frame, detections,
                    heap, srvRunning, thread, slotVars, mutex, srvVars, hist >>

\* logFile << row; logFile.flush(); a closed stream takes no row.  The
\* lock is released on return.
LogWrite ==
    /\ logger.call.pc = "logWrite"
    /\ logger' = [(IF logger.isOpen
                   THEN [logger EXCEPT !.rows = @ + 1, !.unflushed = 0,
                            !.last = [total_detections |-> loop.metrics.total_detections,
                                      dropped_frames |-> loop.metrics.dropped_frames]]
                   ELSE logger)
                  EXCEPT !.call.pc = "idle", !.call.logMutex = "free"]
    /\ UNCHANGED << proc, g_running, args, detector, mpc, camera, loop, frame, detections,
                    heap, srvRunning, thread, slotVars, mutex, srvVars, hist >>

\* Logger::close behind its lock_guard.
LogClose ==
    /\ logger.call.pc = "close"
    /\ logger' = [(IF logger.isOpen
                   THEN [logger EXCEPT !.isOpen = FALSE, !.initialized = FALSE,
                                       !.unflushed = 0]
                   ELSE logger)
                  EXCEPT !.call.pc = "idle", !.call.logMutex = "free"]
    /\ UNCHANGED << proc, g_running, args, detector, mpc, camera, loop, frame, detections,
                    heap, srvRunning, thread, slotVars, mutex, srvVars, hist >>

LoggerInit ==
    /\ proc = "up"
    /\ g_running = TRUE
    /\ args = [disableML |-> FALSE, videoFile |-> FALSE, usage |-> "run"]
    /\ detector = NoDetector
    /\ mpc = "loggerInit"
    /\ camera = NoCamera
    /\ logger = [initialized |-> FALSE, isOpen |-> FALSE, rows |-> 0, unflushed |-> 0,
                 last |-> NoRow, call |-> NoCall]
    /\ loop = InitLoop
    /\ frame = 0
    /\ detections = << >>
    /\ heap = [b \in Bufs |-> NoImage]
    /\ srvRunning = FALSE
    /\ thread = "none"
    /\ spc = "none"
    /\ currentFrame = 0
    /\ currentDetections = << >>
    /\ currentStatus = << >>
    /\ mutex = [frame |-> "free", detections |-> "free", status |-> "free"]
    /\ conn = NoConn
    /\ srv = InitSrv
    /\ wire = NoWire
    /\ hist = InitHist

LoggerNext == LogCall \/ LogInitialize \/ LogCheck \/ LogLock \/ LogWrite \/ LogClose

LoggerSpec == LoggerInit /\ [][LoggerNext]_vars

(***************************************************************************)
(* Detector::nms alone.  NmsSpec starts where detect calls nms, for every  *)
(* list of at most MaxProposals detections of NmsDetections: two pairs of  *)
(* boxes that overlap by more than iouThreshold, a row of three boxes of   *)
(* which the outer two overlap by less, and boxes of a second class.       *)
(***************************************************************************)
NmsDetections ==
    { Det(0, 90, <<10, 10, 100, 100>>), Det(0, 80, <<15, 15, 100, 100>>),
      Det(0, 90, <<0, 0, 10, 10>>), Det(0, 80, <<3, 0, 10, 10>>),
      Det(0, 70, <<6, 0, 10, 10>>), Det(1, 80, <<3, 0, 10, 10>>),
      Det(1, 70, <<6, 0, 10, 10>>) }

NmsInit ==
    /\ proc = "up"
    /\ g_running = TRUE
    /\ args = [disableML |-> FALSE, videoFile |-> FALSE, usage |-> "run"]
    /\ detections \in UNION { [1 .. n -> NmsDetections] : n \in 0 .. MaxProposals }
    /\ detector = [NoDetector EXCEPT !.pc = "nms", !.decoded = detections]
    /\ mpc = "detect"
    /\ camera = [NoCamera EXCEPT !.opened = TRUE, !.capture.open = TRUE]
    /\ logger = [initialized |-> TRUE, isOpen |-> TRUE, rows |-> 0, unflushed |-> 0,
                 last |-> NoRow, call |-> NoCall]
    /\ loop = InitLoop
    /\ frame = 1
    /\ heap = [b \in Bufs |-> IF b = 1 THEN << 0, 0 >> ELSE NoImage]
    /\ srvRunning = TRUE
    /\ thread = "joinable"
    /\ spc = "acceptHead"
    /\ currentFrame = 0
    /\ currentDetections = << >>
    /\ currentStatus = << >>
    /\ mutex = [frame |-> "free", detections |-> "free", status |-> "free"]
    /\ conn = NoConn
    /\ srv = [InitSrv EXCEPT !.server_fd = 3]
    /\ wire = NoWire
    /\ hist = InitHist

NmsSpec == NmsInit /\ [][Nms]_vars

(***************************************************************************)
(* Class names.  LabelsSpec starts in main after detector.initialize has   *)
(* returned true, for every labels file of LabelFiles, and follows the     *)
(* pipeline thread through loadClassNames, the rest of the initialisation  *)
(* and the loop up to the first detect call, which it follows step by      *)
(* step.                                                                   *)
(***************************************************************************)
LabelLines == { "stop", "yield", "" }

\* Labels files: none, and the files of up to three lines.
LabelFiles ==
    { NoFile } \cup
    { [exists |-> TRUE, lines |-> l] : l \in UNION { [1 .. n -> LabelLines] : n \in 0 .. 3 } }

\* Network outputs of one box that differ in the best class.
LabelOutputs ==
    UNION { [1 .. n -> [ cx : {2}, cy : {3}, w : {4}, h : {4},
                         scores : { <<90, 10>>, <<10, 90>> } ]] :
                n \in 0 .. MaxProposals }

\* while (std::getline(file, line)) if (!line.empty()) push_back(line)
RECURSIVE ReadLines(_)
ReadLines(lines) ==
    IF lines = << >> THEN << >>
    ELSE (IF Head(lines) # "" THEN << Head(lines) >> ELSE << >>) \o ReadLines(Tail(lines))

\* Variant of loadClassNames that keeps the empty lines.
loadClassNames_keepEmpty(file, classNames) ==
    IF ~file.exists THEN [ok |-> FALSE, names |-> classNames]
    ELSE [ok |-> TRUE, names |-> file.lines]

\* Detector::loadClassNames: [ok, names], the return value and classNames
\* after the call.
loadClassNames(file, classNames) ==
    IF ~file.exists THEN [ok |-> FALSE, names |-> classNames]
    ELSE [ok |-> TRUE, names |-> ReadLines(file.lines)]

\* if (!detector.loadClassNames(labelsPath)) { warning }: main goes on
\* either way.
LoadClassNames ==
    /\ Up /\ mpc = "loadClassNames"
    /\ detector' = [detector EXCEPT
                       !.classNames = loadClassNames(detector.labels, @).names]
    /\ mpc' = "serverInit"
    /\ UNCHANGED << proc, g_running, args, camera, logger, loop, frame, detections, heap,
                    srvRunning, thread, slotVars, mutex, srvVars, hist >>

\* What becomes of the process when inputSize[0] and inputSize[1] are read
\* from a vector of fewer than two elements: the read is out of bounds, it
\* faults or yields some value.
OutOfBounds == { "segv", "undefined" }

\* Detector::detect up to ex.extract: the network output is there.
\* preprocess resizes the frame to cv::Size(inputSize[0], inputSize[1]);
\* cv::resize throws for a size that is not positive, and nothing catches.
DetectEnter ==
    /\ Up /\ mpc = "detect" /\ ~args.disableML
    /\ detector.pc = "idle"
    /\ LET size == detector.inputSize IN
          IF Len(size) < 2
          THEN /\ proc' \in OutOfBounds
               /\ detector' = detector
          ELSE IF size[1] <= 0 \/ size[2] <= 0
          THEN /\ proc' = "abort"
               /\ detector' = detector
          ELSE /\ proc' = proc
               /\ \E o \in LabelOutputs :
                     detector' = [detector EXCEPT !.pc = "postprocess", !.out = o]
    /\ hist' = [hist EXCEPT !.detectCalls = @ + 1]
    /\ UNCHANGED << g_running, args, mpc, camera, logger, loop, frame, detections,
                    heap, srvRunning, thread, slotVars, mutex, srvVars >>

LabelsInit ==
    /\ proc = "up"
    /\ g_running = TRUE
    /\ args = [disableML |-> FALSE, videoFile |-> FALSE, usage |-> "run"]
    /\ detector \in { [NoDetector EXCEPT !.labels = f] : f \in LabelFiles }
    /\ mpc = "loadClassNames"
    /\ camera = [NoCamera EXCEPT !.opened = TRUE, !.capture.open = TRUE]
    /\ logger = [initialized |-> TRUE, isOpen |-> TRUE, rows |-> 0, unflushed |-> 0,
                 last |-> NoRow, call |-> NoCall]
    /\ loop = InitLoop
    /\ frame = 0
    /\ detections = << >>
    /\ heap = [b \in Bufs |-> NoImage]
    /\ srvRunning = FALSE
    /\ thread = "none"
    /\ spc = "none"
    /\ currentFrame = 0
    /\ currentDetections = << >>
    /\ currentStatus = << >>
    /\ mutex = [frame |-> "free", detections |-> "free", status |-> "free"]
    /\ conn = NoConn
    /\ srv = InitSrv
    /\ wire = NoWire
    /\ hist = InitHist

LabelsNext ==
    \/ LoadClassNames \/ ServerInitialize \/ ServerStart
    \/ LoopHead \/ CaptureFrame \/ DropSleep
    \/ DetectEnter \/ Postprocess \/ Nms

LabelsSpec == LabelsInit /\ [][LabelsNext]_vars

(***************************************************************************)
(* The configured input size.  InputSizeSpec starts where main initialises *)
(* the detector, follows Detector::initialize step by step for every value *)
(* of detection.inputSize in InputSizes, and goes on through the rest of   *)
(* the initialisation and the loop up to the first detect call.            *)
(***************************************************************************)
\* What config.getArray<int>("detection.inputSize") may return: the empty
\* vector when the key is missing or not an array, else the array.
InputSizes == { << >>, << 6 >>, inputSize, << 3, 6 >>, << 0, 6 >>, << 6, -6 >> }

\* if (modelPaths.size() < 2) return 1; then detector.initialize is
\* entered and stores its arguments.
DetInitEnter ==
    /\ Up /\ mpc = "detectorInit" /\ detector.pc = "idle"
    /\ \E paths \in BOOLEAN : \E size \in InputSizes :
          IF paths
          THEN /\ detector' = [detector EXCEPT !.pc = "initPrint", !.inputSize = size]
               /\ UNCHANGED << proc, mpc >>
          ELSE /\ InitFailure
               /\ detector' = detector
    /\ UNCHANGED << g_running, args, camera, logger, loop, frame, detections, heap,
                    srvRunning, thread, slotVars, mutex, srvVars, hist >>

\* std::cout << "  Input size: " << inputSize[0] << "x" << inputSize[1]
DetInitPrint ==
    /\ Up /\ detector.pc = "initPrint"
    /\ IF Len(detector.inputSize) < 2
       THEN /\ proc' \in OutOfBounds
            /\ detector' = detector
       ELSE /\ proc' = proc
            /\ detector' = [detector EXCEPT !.pc = "initLoad"]
    /\ UNCHANGED << g_running, args, mpc, camera, logger, loop, frame, detections, heap,
                    srvRunning, thread, slotVars, mutex, srvVars, hist >>

\* net.load_param, net.load_model; initialized = true; on failure
\* initialize returns false and main returns 1.
DetInitLoad ==
    /\ Up /\ detector.pc = "initLoad"
    /\ \E ok \in BOOLEAN :
          IF ok THEN mpc' = "loadClassNames" /\ proc' = proc
          ELSE InitFailure
    /\ detector' = [detector EXCEPT !.pc = "idle"]
    /\ UNCHANGED << g_running, args, camera, logger, loop, frame, detections, heap,
                    srvRunning, thread, slotVars, mutex, srvVars, hist >>

InputSizeInit ==
    /\ proc = "up"
    /\ g_running = TRUE
    /\ args = [disableML |-> FALSE, videoFile |-> FALSE, usage |-> "run"]
    /\ detector = NoDetector
    /\ mpc = "detectorInit"
    /\ camera = [NoCamera EXCEPT !.opened = TRUE, !.capture.open = TRUE]
    /\ logger = [initialized |-> TRUE, isOpen |-> TRUE, rows |-> 0, unflushed |-> 0,
                 last |-> NoRow, call |-> NoCall]
    /\ loop = InitLoop
    /\ frame = 0
    /\ detections = << >>
    /\ heap = [b \in Bufs |-> NoImage]
    /\ srvRunning = FALSE
    /\ thread = "none"
    /\ spc = "none"
    /\ currentFrame = 0
    /\ currentDetections = << >>
    /\ currentStatus = << >>
    /\ mutex = [frame |-> "free", detections |-> "free", status |-> "free"]
    /\ conn = NoConn
    /\ srv = InitSrv
    /\ wire = NoWire
    /\ hist = InitHist

InputSizeNext ==
    \/ DetInitEnter \/ DetInitPrint \/ DetInitLoad
    \/ LabelsNext

InputSizeSpec == InputSizeInit /\ [][InputSizeNext]_vars

(***************************************************************************)
(* Detector::detect for every configured confidence threshold              *)
(* (detection.confidenceThreshold) and for score rows that hold ties,      *)
(* zeros and negative scores.                                              *)
(***************************************************************************)
Thresholds == {-10, 0, 40, 50, 101}

ThresholdProposals ==
    [ cx : {2}, cy : {3}, w : {4}, h : {4},
      scores : { <<90, 10>>, <<40, 30>>, <<50, 50>>, <<0, 0>>, <<-5, -20>> } ]

ThresholdOutputs ==
    UNION { [1 .. n -> ThresholdProposals] : n \in 0 .. MaxProposals }

ThresholdInit == DetectorStart(ThresholdOutputs, Thresholds)

ThresholdSpec == ThresholdInit /\ [][DetectorNext]_vars

(***************************************************************************)
(* Properties                                                              *)
(***************************************************************************)
AllPubs == << "frame", "detections", "status" >>

\* C1: the frame slot holds a deep copy of the published frame F: its pixels
\* equal F's until the next updateFrame, a reader's snapshot holds the pixels
\* of the slot it was copied from (and equals the slot while no update came
\* in between), and neither shares a buffer with the pipeline's frame or
\* with each other, so in-place drawing by the pipeline cannot reach them.
C1_DeepCopy ==
    /\ currentFrame # 0 =>
          /\ heap[currentFrame] = hist.published
          /\ currentFrame \notin {frame, srv.frame}
    /\ srv.frame # 0 =>
          /\ heap[srv.frame] = hist.snapshot
          /\ srv.frame # frame
          /\ hist.snapIter = hist.frameIter => heap[srv.frame] = heap[currentFrame]

\* C1 witness: slot and reader snapshot hold iteration 1's undrawn frame while
\* the pipeline has drawn boxes on its own buffer in iteration 2.
C1_Witness ==
    /\ mpc = "encode" /\ hist.iter = 2 /\ hist.frameIter = 1
    /\ srv.frame # 0 /\ hist.snapIter = 1
    /\ heap[frame] = << Green, 0 >>
    /\ heap[currentFrame] = << 0, 0 >> /\ heap[srv.frame] = << 0, 0 >>

\* C2: within a successful iteration the publications are updateFrame, then
\* updateDetections, then updateStatus, each once; an iteration starts only
\* when the previous one has made all three (or none was made yet).
C2_PublicationOrder ==
    /\ mpc \in {"detect", "encode", "updateFrame", "updateFrameCs"} => hist.pubs = << >>
    /\ mpc \in {"updateDetections", "updateDetectionsCs"} => hist.pubs = << "frame" >>
    /\ mpc \in {"calcFps", "updateStatus", "updateStatusCs"} =>
          hist.pubs = << "frame", "detections" >>
    /\ mpc \in {"logMetrics", "sleep"} => hist.pubs = AllPubs
    /\ mpc \in {"loopHead", "capture", "dropSleep"} =>
          hist.pubs = (IF hist.iter = 0 THEN << >> ELSE AllPubs)
    /\ hist.frameIter = (IF Len(hist.pubs) >= 1 THEN hist.iter ELSE hist.iter - 1)
         \/ hist.iter = 0
    /\ hist.detIter = (IF Len(hist.pubs) >= 2 THEN hist.iter ELSE hist.iter - 1)
         \/ hist.iter = 0
    /\ hist.statIter = (IF Len(hist.pubs) >= 3 THEN hist.iter ELSE hist.iter - 1)
         \/ hist.iter = 0

\* C2 witness: the second successful iteration has made its three publications.
C2_Witness ==
    mpc = "sleep" /\ hist.iter = 2 /\ hist.pubs = AllPubs /\ hist.statIter = 2

\* C3: the iterations i, j, k whose values the frame, detections and status
\* slots hold satisfy i >= j >= k >= i - 1.
C3_SlotSkew ==
    /\ hist.frameIter >= hist.detIter
    /\ hist.detIter >= hist.statIter
    /\ hist.statIter >= hist.frameIter - 1

\* C3 witness: the frame slot is one iteration ahead of the other two slots,
\* and a reader can take the detections slot's lock.
C3_Witness ==
    /\ hist.frameIter = 2 /\ hist.detIter = 1 /\ hist.statIter = 1
    /\ spc = "detectionsLock" /\ mutex.detections = "free"

\* A step of the pipeline thread in which captureFrame failed.
CaptureFailed == mpc = "capture" /\ mpc' # "capture" /\ frame' = 0

\* C4: an iteration whose captureFrame fails adds exactly 1 to droppedFrames,
\* runs no detection, writes no slot, logs no row, leaves totalDetections and
\* frameCount alone, and goes back to the loop head, which starts the next
\* iteration while g_running holds.
C4_DroppedIteration ==
    [][ /\ CaptureFailed =>
              /\ mpc' = "dropSleep"
              /\ loop'.droppedFrames = loop.droppedFrames + 1
              /\ loop'.totalDetections = loop.totalDetections
              /\ loop'.frameCount = loop.frameCount
              /\ loop'.metrics = loop.metrics
              /\ hist'.detectCalls = hist.detectCalls
              /\ UNCHANGED << proc, slotVars, logger, hist >>
        /\ (mpc = "dropSleep" /\ mpc' # mpc) =>
              /\ mpc' = "loopHead"
              /\ UNCHANGED << proc, loop, slotVars, logger, hist >>
        /\ (mpc = "loopHead" /\ mpc' # mpc /\ g_running) => mpc' = "capture"
      ]_vars

\* C4 witness: a capture has just failed after a successful iteration.
C4_Witness ==
    /\ mpc = "dropSleep" /\ loop.droppedFrames = 1
    /\ hist.iter = 1 /\ hist.statIter = 1 /\ g_running

\* C5: total_detections and dropped_frames, as held in the metrics record, in
\* the published status and in the latest logged row, never decrease.
C5_CountersMonotonic ==
    [][ /\ loop'.metrics.total_detections >= loop.metrics.total_detections
        /\ loop'.metrics.dropped_frames >= loop.metrics.dropped_frames
        /\ (currentStatus # << >> /\ currentStatus' # << >>) =>
              currentStatus'.total_detections >= currentStatus.total_detections
        /\ logger'.last.total_detections >= logger.last.total_detections
        /\ logger'.last.dropped_frames >= logger.last.dropped_frames
      ]_vars

\* C6: once the signal has been delivered while a /video_feed client is being
\* streamed to, the program goes on by itself until main has returned 0: as
\* long as it has not, the main thread or the server thread can take a step
\* (none of them waits for the client); and every row written was flushed.
C6_GracefulShutdown ==
    /\ (~g_running /\ Streaming /\ proc = "up") => ENABLED (MainStep \/ ServerStep)
    /\ logger.unflushed = 0

C8_BindListenFatal ==
    [][ hist.setupFailed \in {"bind", "listen"} =>
            /\ ~(mpc = "loopHead" /\ mpc' = "capture")
            /\ mpc' = "returned" => proc' = "exit1" ]_vars

\* C9: a failed send leaves the process running.
C9_SendFailureContained ==
    hist.sendFailed => proc = "up"

StartsWith(s, prefix) ==
    Len(s) >= Len(prefix) /\ SubSeq(s, 1, Len(prefix)) = prefix

\* The handler of a request line under exact-prefix routing.
PrefixRoute(requestLine) ==
    IF StartsWith(requestLine, << "GET ", "/video_feed" >>) THEN "video_feed"
    ELSE IF StartsWith(requestLine, << "GET ", "/api/detections" >>) THEN "detections"
    ELSE IF StartsWith(requestLine, << "GET ", "/api/status" >>) THEN "status"
    ELSE IF StartsWith(requestLine, << "GET ", "/health" >>) THEN "health"
    ELSE "404"

\* C10: the handler that answers a request is the one whose route the
\* request line starts with after "GET ", and 404 when there is none.
C10_PrefixRouting ==
    [][ (spc = "route" /\ spc' # spc /\ Contains(srv.request, << CRLF >>)) =>
            spc' = RouteTarget(PrefixRoute(RequestLine(srv.request))) ]_vars

\* C11: a connection whose request was read, and on which no send failed, has
\* been sent exactly one response header block when its socket is closed.
C11_OneHeaderBlock ==
    (spc = "closeClient" /\ conn.sent /\ ~hist.sendFailed) => wire.headers = 1

\* C12: reading a slot no update has written yet is answered like any other
\* read.  Before the first updateStatus /api/status answers 200 with {};
\* before the first updateDetections /api/detections answers 200 with
\* success true, an empty list and count 0; before the first updateFrame a
\* pass of the /video_feed loop takes no snapshot, sends nothing, and goes to
\* its pacing sleep and from there to the next pass.
C12_EmptySlotReads ==
    [][ /\ (spc = "statusCs" /\ spc' # spc /\ hist.statIter = 0) =>
              /\ spc' = "send" /\ proc' = "up"
              /\ srv'.response = [kind |-> "response", status |-> 200,
                                  handler |-> "status", body |-> "{}"]
        /\ (spc = "detectionsCs" /\ spc' # spc /\ hist.detIter = 0) =>
              /\ spc' = "send" /\ proc' = "up"
              /\ srv'.response =
                    [kind |-> "response", status |-> 200, handler |-> "detections",
                     body |-> [success |-> TRUE, detections |-> << >>, count |-> 0]]
        /\ (spc = "mjpegCopy" /\ spc' # spc /\ hist.frameIter = 0) =>
              /\ spc' = "mjpegSleep" /\ proc' = "up"
              /\ srv'.frame = 0 /\ wire' = wire
        /\ (spc = "mjpegSleep" /\ spc' # spc) => spc' = "mjpegHead"
        /\ (spc = "send" /\ wire' # wire) => wire'.last = srv.response
      ]_vars

\* C12 witness: /api/status has been answered with {} before any updateStatus.
C12_Witness ==
    /\ hist.statIter = 0 /\ spc = "closeClient"
    /\ wire.last # << >> /\ wire.last.kind = "response"
    /\ wire.last.handler = "status" /\ wire.last.body = "{}"

\* C13: a snapshot taken by the /video_feed loop is the frame most recently
\* published at that instant; the part then sent carries that snapshot,
\* whatever was published in between; the iteration held by the slot never
\* decreases and no part comes from a later iteration than the slot's.  So
\* the parts of a stream come in non-decreasing iteration order, and a frame
\* replaced in the slot before a snapshot is sent by no later part.
C13_LatestFrameStreamed ==
    [][ /\ (spc = "mjpegCopy" /\ spc' = "mjpegSend") =>
              /\ hist'.snapIter = hist.frameIter
              /\ hist'.snapshot = heap[currentFrame]
              /\ heap'[srv'.frame] = heap[currentFrame]
        /\ (spc = "mjpegSend" /\ wire' # wire) =>
              /\ wire'.last.kind = "part"
              /\ wire'.last.img = hist.snapshot
              /\ wire'.last.iter = hist.snapIter
              /\ wire'.last.iter <= hist.frameIter
        /\ hist'.frameIter >= hist.frameIter
        /\ (wire' # wire /\ wire'.last # << >> /\ wire'.last.kind = "part") =>
              spc = "mjpegSend"
      ]_vars

\* C13 witness: the part just sent is iteration 1's frame, taken from the slot
\* before updateFrame replaced it with iteration 2's.
C13_Witness ==
    /\ spc = "mjpegSleep" /\ wire.last # << >> /\ wire.last.kind = "part"
    /\ wire.last.iter = 1 /\ hist.frameIter = 2
    /\ wire.last.img # heap[currentFrame]

\* A complete part: "--frame", the two part headers, a blank line, exactly as
\* many image bytes as Content-Length says, and a closing CRLF.
WellFramed(bytes) ==
    /\ Len(bytes) >= 9
    /\ SubSeq(bytes, 1, 5) = << "--frame", CRLF, "Content-Type: image/jpeg", CRLF,
                                "Content-Length: " >>
    /\ bytes[6] \in Nat
    /\ SubSeq(bytes, 7, 8) = << CRLF, CRLF >>
    /\ Len(bytes) = 8 + bytes[6] + 1
    /\ bytes[Len(bytes)] = CRLF

\* C14: every send of a part that transmits the whole buffer puts a complete,
\* well framed part on the wire, and once a send has transmitted only part
\* of its buffer nothing more is sent on that connection.
C14_WellFramedParts ==
    [][ (spc = "mjpegSend" /\ wire' # wire) =>
            /\ ~wire.truncated
            /\ wire'.truncated \/ WellFramed(wire'.last.bytes) ]_vars

\* C15: a poll that arrives while a /video_feed stream is in progress does
\* not wait for the end of the stream: unless the server is stopped, the
\* process ends, or the streaming client stops reading or leaves, the poll is
\* eventually taken from the listen queue, as it must be to be answered.
C15_PollNotDelayed ==
    (conn.queued /\ Streaming) ~>
        (~conn.queued \/ ~srvRunning \/ proc # "up" \/ conn.peer # "open")

\* The value held by the frame slot.
FrameSlot == IF currentFrame = 0 THEN NoImage ELSE heap[currentFrame]

\* C16: no step of the server thread, whichever handler it is in, changes
\* any of the three slots; a slot changes only in the update of that name,
\* run by the pipeline thread, and that update leaves the other two slots
\* as they were.
C16_SlotWriters ==
    [][ /\ spc' # spc =>
              /\ FrameSlot' = FrameSlot
              /\ UNCHANGED << currentFrame, currentDetections, currentStatus >>
        /\ FrameSlot' # FrameSlot =>
              /\ mpc = "updateFrameCs" /\ mpc' # mpc
              /\ UNCHANGED << currentDetections, currentStatus >>
        /\ currentDetections' # currentDetections =>
              /\ mpc = "updateDetectionsCs" /\ mpc' # mpc
              /\ FrameSlot' = FrameSlot /\ UNCHANGED << currentFrame, currentStatus >>
        /\ currentStatus' # currentStatus =>
              /\ mpc = "updateStatusCs" /\ mpc' # mpc
              /\ FrameSlot' = FrameSlot /\ UNCHANGED << currentFrame, currentDetections >>
      ]_vars

\* C16 witness: /api/detections has built its answer from a slot holding two
\* detections, and the three slots still hold their values.
C16_Witness ==
    /\ spc = "send" /\ srv.response.handler = "detections"
    /\ srv.response.body.count = 2
    /\ Len(currentDetections) = 2 /\ currentFrame # 0 /\ currentStatus # << >>

\* The slot mutexes a thread holds.
Held(t) == { m \in {"frame", "detections", "status"} : mutex[m] = t }

\* C17: a thread holds a slot mutex only inside the operation on that slot,
\* and then only that one, so neither thread ever holds two; a thread that
\* waits for a slot mutex waits for a holder that can go on and release it,
\* so the two threads cannot deadlock on the slot locks; and in the stream
\* loop the server thread takes no mutex but the frame slot's.
C17_LockIndependence ==
    /\ Cardinality(Held("main")) <= 1
    /\ Cardinality(Held("server")) <= 1
    /\ Held("main") = (CASE mpc = "updateFrameCs" -> {"frame"}
                         [] mpc = "updateDetectionsCs" -> {"detections"}
                         [] mpc = "updateStatusCs" -> {"status"}
                         [] OTHER -> {})
    /\ Held("server") = (CASE spc = "mjpegCopy" -> {"frame"}
                           [] spc = "detectionsCs" -> {"detections"}
                           [] spc = "statusCs" -> {"status"}
                           [] OTHER -> {})
    /\ (proc = "up" /\ Held("server") # {}) => ENABLED ServerStep
    /\ (proc = "up" /\ Held("main") # {}) => ENABLED MainStep
    /\ Streaming => mutex.detections # "server" /\ mutex.status # "server"

\* C17 witness: the server thread copies the frame slot under frameMutex while
\* the pipeline thread writes the detections slot under detectionsMutex.
C17_Witness ==
    /\ spc = "mjpegCopy" /\ mutex.frame = "server"
    /\ mpc = "updateDetectionsCs" /\ mutex.detections = "main"

\* The server thread is at a send (of the stream's header, of a part, which
\* it encodes first, or of a JSON or 404 response).
AtSend == spc \in {"mjpegHeader", "mjpegSend", "send"}

\* C18: while the server thread encodes or sends it holds none of the three
\* slot mutexes; and while it is held up in a send by a client that does not
\* read, the pipeline thread, wherever it is in its iteration, can go on.
C18_NoLockDuringIO ==
    /\ AtSend => Held("server") = {}
    /\ ( /\ proc = "up" /\ AtSend /\ conn.peer = "stalled"
         /\ mpc \in {"updateFrame", "updateFrameCs", "updateDetections",
                     "updateDetectionsCs", "updateStatus", "updateStatusCs"} )
          => ENABLED MainStep

\* C18 witness: the pipeline thread is inside updateFrame, holding frameMutex,
\* while the server thread is held up sending a part to a stalled client.
C18_Witness ==
    /\ spc = "mjpegSend" /\ conn.peer = "stalled"
    /\ mpc = "updateFrameCs" /\ mutex.frame = "main"

\* C19: every detection decoded from a network output lies inside the image
\* and has a width and a height that are not negative.
C19_BoxInsideImage ==
    detector.pc \in {"nms", "done"} =>
        \A i \in 1 .. Len(detections) :
            LET box == detections[i].box IN
              /\ 0 <= box[1] /\ 0 <= box[2]
              /\ box[1] + box[3] <= ImageSize[1]
              /\ box[2] + box[4] <= ImageSize[2]
              /\ box[3] >= 0 /\ box[4] >= 0

\* How many times d occurs in the list dets.
Count(dets, d) == Cardinality({ i \in 1 .. Len(dets) : dets[i] = d })

\* C20: the output of nms is no longer than its input, holds each detection
\* at most as often as the input does, and the IoU of any two kept
\* detections of one class is at most iouThreshold.
C20_NmsResult ==
    detector.pc = "done" =>
        /\ Len(detections) <= Len(detector.decoded)
        /\ \A i \in 1 .. Len(detections) :
              Count(detections, detections[i]) <= Count(detector.decoded, detections[i])
        /\ \A i, j \in 1 .. Len(detections) :
              (i < j /\ detections[i].classId = detections[j].classId) =>
                  LessEq(calculateIoU(detections[i].box, detections[j].box),
                         iouThreshold)

\* The class ids of the detections of a list are pairwise distinct.
DistinctClasses(dets) ==
    \A i, j \in 1 .. Len(dets) : dets[i].classId = dets[j].classId => i = j

\* C21: when the detections handed to nms have pairwise distinct class ids,
\* nms keeps every one of them, whatever the overlap of their boxes: the
\* output holds each detection exactly as often as the input.
C21_DistinctClassesKept ==
    (detector.pc = "done" /\ DistinctClasses(detector.decoded)) =>
        /\ Len(detections) = Len(detector.decoded)
        /\ \A i \in 1 .. Len(detector.decoded) :
              Count(detections, detector.decoded[i])
                 = Count(detector.decoded, detector.decoded[i])

\* nms has run on two detections of different classes whose boxes overlap
\* by more than iouThreshold, and both are in its output.
C21_Witness ==
    /\ detector.pc = "done"
    /\ Len(detector.decoded) = 2
    /\ detector.decoded[1].classId # detector.decoded[2].classId
    /\ Greater(calculateIoU(detector.decoded[1].box, detector.decoded[2].box),
               iouThreshold)
    /\ Len(detections) = 2

\* The float quotient q is exactly 0, or exactly 1 (0 / 0 is neither).
IsZero(q) == q[2] # 0 /\ q[1] = 0

IsOne(q) == q[2] # 0 /\ q[1] = q[2]

\* Two boxes without a common interior point.
Disjoint(a, b) ==
    \/ Min(a[1] + a[3], b[1] + b[3]) <= Max(a[1], b[1])
    \/ Min(a[2] + a[4], b[2] + b[4]) <= Max(a[2], b[2])

\* C22: for all boxes a and b that postprocess decoded, calculateIoU(a, b)
\* is 0 when a and b are disjoint, calculateIoU(a, a) is 1, and
\* calculateIoU(a, b) = calculateIoU(b, a).
C22_IoUAlgebra ==
    detector.pc \in {"nms", "done"} =>
        \A i, j \in 1 .. Len(detector.decoded) :
            LET a == detector.decoded[i].box
                b == detector.decoded[j].box
            IN  /\ Disjoint(a, b) => IsZero(calculateIoU(a, b))
                /\ IsOne(calculateIoU(a, a))
                /\ calculateIoU(a, b) = calculateIoU(b, a)

\* C23: when two decoded boxes both have area 0, so that their union area
\* is 0, calculateIoU returns 0, and so the result compares as not above
\* iouThreshold.
C23_ZeroUnionIsZero ==
    detector.pc \in {"nms", "done"} =>
        \A i, j \in 1 .. Len(detector.decoded) :
            LET a == detector.decoded[i].box
                b == detector.decoded[j].box
                q == calculateIoU(a, b)
            IN  (i # j /\ a[3] * a[4] = 0 /\ b[3] * b[4] = 0 /\ q[2] = 0) =>
                    IsZero(q) /\ LessEq(q, iouThreshold)

\* The highest score of a proposal.
MaxScore(scores) ==
    CHOOSE m \in { scores[c] : c \in 1 .. Len(scores) } :
        \A c \in 1 .. Len(scores) : m >= scores[c]

\* C24: no detection that detect returns has a confidence below
\* confThreshold, and every proposal whose best score is at least
\* confThreshold is among the detections decoded before nms runs, as often
\* as it occurs in the network output.
C24_ThresholdFilter ==
    /\ detector.pc = "done" =>
          \A i \in 1 .. Len(detections) :
              detections[i].confidence >= detector.confThreshold
    /\ detector.pc \in {"nms", "done"} =>
          \A i \in 1 .. Len(detector.out) :
              LET p == detector.out[i]
                  d == Decode(p, ImageSize[1], ImageSize[2])
              IN  MaxScore(p.scores) >= detector.confThreshold =>
                     Count(detector.decoded, d) >=
                        Cardinality({ k \in 1 .. Len(detector.out) :
                            /\ Decode(detector.out[k], ImageSize[1], ImageSize[2]) = d
                            /\ MaxScore(detector.out[k].scores) >= detector.confThreshold })

\* detect has returned for a network output with one proposal whose best
\* score equals confThreshold, which is returned, and one below it, which
\* is not.
C24_Witness ==
    /\ detector.pc = "done"
    /\ \E i, j \in 1 .. Len(detector.out) :
          /\ MaxScore(detector.out[i].scores) = detector.confThreshold
          /\ MaxScore(detector.out[j].scores) < detector.confThreshold
    /\ Len(detections) = 1
    /\ detections[1].confidence = detector.confThreshold

\* C25: with a file of N >= 1 readable frames every call of captureFrame
\* succeeds, and the k-th call returns frame (k - 1) mod N; a call made at
\* the end of the file seeks to frame 0 and reads once more, leaving the
\* read position behind frame 0; and a call on a file source fails only
\* when the read after the seek fails or yields an empty frame.
C25_FileLoops ==
    [][ (mpc = "capture" /\ mpc' # mpc /\ camera.usingFile) =>
          LET N == Len(camera.frames)
              k == camera'.captureCount
          IN  /\ k = camera.captureCount + 1
              /\ N >= 1 =>
                    /\ mpc' = "detect"
                    /\ heap'[frame'] = camera.frames[((k - 1) % N) + 1]
                    /\ camera.pos = N => camera'.pos = 1
              /\ mpc' = "dropSleep" =>
                    \A r \in ReadOutcomes([camera EXCEPT !.pos = 0]) :
                        ~r.ok \/ r.img = NoImage
      ]_vars

\* The fourth call of captureFrame on the three-frame file has returned
\* frame 0 again.
C25_Witness ==
    /\ camera.usingFile /\ camera.frames = FileFrames
    /\ camera.captureCount = Len(FileFrames) + 1
    /\ mpc = "detect"
    /\ heap[frame] = FileFrames[1]
    /\ camera.pos = 1

\* The initialisation step that follows the step at, when it succeeds.
StepAfter(at) ==
    CASE at = "loadConfig" -> "loggerInit"
      [] at = "loggerInit" -> "cameraInit"
      [] at = "cameraInit" -> IF args.disableML THEN "serverInit" ELSE "detectorInit"
      [] at = "detectorInit" -> "serverInit"

\* An initialisation step either succeeds and hands over to the next step,
\* or makes main return 1 at once, with nothing else done; once main has
\* returned 1 the server thread was never started, the pipeline loop was
\* never entered, and nothing runs any more.
InitFailureReturns1 ==
    /\ [][ (mpc \in {"loadConfig", "loggerInit", "cameraInit", "detectorInit"}
              /\ mpc' # mpc) =>
             \/ /\ proc' = "up" /\ mpc' = StepAfter(mpc)
                /\ mpc = "loggerInit" => logger'.initialized
                /\ mpc = "cameraInit" => camera'.opened
             \/ /\ proc' = "exit1" /\ mpc' = "returned"
                /\ UNCHANGED << camera, logger, loop, srvRunning, thread, spc, hist >>
       ]_vars
    /\ [](proc = "exit1" =>
             /\ thread = "none" /\ spc = "none" /\ ~srvRunning
             /\ loop.mainLoopCount = 0 /\ hist.iter = 0)
    /\ [][proc # "exit1"]_vars

\* C26 as stated: a failed initialisation step makes main return 1 at once,
\* and main returns 0 only after the pipeline loop has been left through
\* the running flag.
C26_ExitCodes ==
    /\ InitFailureReturns1
    /\ [](proc = "exit0" => ~g_running /\ thread # "none")

\* C26, amended: as stated, except that main also returns 0 at once, before
\* any initialisation step, when the command line asks for the help text.
C26_ExitCodesHelp ==
    /\ InitFailureReturns1
    /\ [](proc = "exit0" =>
             \/ ~g_running /\ thread # "none"
             \/ args.usage = "help" /\ thread = "none" /\ ~logger.initialized)
    /\ [](mpc \in {"stop", "join", "release", "loggerClose", "return"} =>
             ~g_running /\ thread # "none")

\* The camera failed to open after the logger was initialised: main has
\* returned 1, and no server thread exists.
C26_Witness ==
    /\ proc = "exit1" /\ mpc = "returned"
    /\ logger.initialized /\ ~camera.opened
    /\ thread = "none"

\* Every backend tried so far failed to open or gave no test frame.
AllFailed(tried) ==
    \A i \in 1 .. Len(tried) : tried[i] \in {"noOpen", "noFrame"}

\* C27: tryOpenCamera tries the backends in the order of Backends, none
\* skipped, and makes at most MaxAttempts test reads of one that opened;
\* the capture is closed whenever the next backend is about to be opened;
\* the call succeeds with the first backend that opened and gave a test
\* frame, all before it having failed; and when all have failed the call
\* fails with the camera not opened and the capture closed.
C27_FirstWorkingBackend ==
    LET pr == camera.probe IN
      /\ pr.attempt <= MaxAttempts
      /\ pr.pc \in {"open", "read", "accept", "release"} =>
            /\ pr.backend = Len(pr.tried) + 1 /\ pr.backend <= Len(Backends)
            /\ AllFailed(pr.tried)
            /\ ~camera.opened
      /\ pr.pc = "open" => ~camera.capture.open
      /\ pr.pc \in {"read", "accept", "release"} => camera.capture.open
      /\ pr.pc = "done" =>
            /\ camera.opened /\ camera.capture.open
            /\ Len(pr.tried) = pr.backend
            /\ pr.tried[pr.backend] = "ok"
            /\ AllFailed(SubSeq(pr.tried, 1, pr.backend - 1))
            /\ pr.attempt \in 1 .. MaxAttempts
      /\ pr.pc = "failed" =>
            /\ ~camera.opened /\ ~camera.capture.open
            /\ Len(pr.tried) = Len(Backends) /\ AllFailed(pr.tried)

\* The first backend did not open, the second opened but gave no frame in
\* five reads and was released, and the third was taken on its fifth read.
C27_Witness ==
    /\ camera.probe.pc = "done"
    /\ camera.probe.tried = << "noOpen", "noFrame", "ok" >>
    /\ Backends[camera.probe.backend] = "V4L2"
    /\ camera.probe.attempt = MaxAttempts
    /\ camera.opened

\* C28: after a successful Camera::initialize the members that getWidth,
\* getHeight and getFps return hold the geometry and fps the capture
\* actually delivers.
C28_GettersReturnActual ==
    (camera.probe.pc = "done" /\ camera.opened) =>
        camera.geometry = camera.capture.actual

\* C29: every part streamed on /video_feed is encoded at the configured
\* JPEG quality (the default when the config key is absent).
C29_ConfiguredQuality ==
    (wire.last # << >> /\ wire.last.kind = "part") =>
        wire.last.quality = loop.jpegQuality

GreedyKept(s, K) ==
    \A j \in 1 .. Len(s) :
        j \notin K <=>
            \E i \in K : /\ i < j
                         /\ s[i].classId = s[j].classId
                         /\ Greater(calculateIoU(s[i].box, s[j].box), iouThreshold)

\* The detections of s at the positions of K, in the order of s.
RECURSIVE Keep(_, _, _)
Keep(s, i, K) ==
    IF i > Len(s) THEN << >>
    ELSE (IF i \in K THEN << s[i] >> ELSE << >>) \o Keep(s, i + 1, K)

\* C31: the output of nms is what greedy suppression keeps of some
\* confidence-descending order of its input (a suppressed detection
\* suppresses nothing), and it is in non-increasing confidence order; of the
\* row of three boxes the first and the third are kept; of the two class-0
\* boxes (10,10,100,100,0.9) and (15,15,100,100,0.8) only the first is.
C31_GreedyNms ==
    detector.pc = "done" =>
        /\ \E s \in SortedOrders(detector.decoded) :
              \E K \in SUBSET (1 .. Len(s)) :
                  GreedyKept(s, K) /\ detections = Keep(s, 1, K)
        /\ \A i \in 1 .. Len(detections) - 1 :
              detections[i].confidence >= detections[i + 1].confidence
        /\ { detector.decoded[i] : i \in 1 .. Len(detector.decoded) }
              = { Det(0, 90, <<0, 0, 10, 10>>), Det(0, 80, <<3, 0, 10, 10>>),
                  Det(0, 70, <<6, 0, 10, 10>>) }
              /\ Len(detector.decoded) = 3
           => detections = << Det(0, 90, <<0, 0, 10, 10>>), Det(0, 70, <<6, 0, 10, 10>>) >>
        /\ { detector.decoded[i] : i \in 1 .. Len(detector.decoded) }
              = { Det(0, 90, <<10, 10, 100, 100>>), Det(0, 80, <<15, 15, 100, 100>>) }
              /\ Len(detector.decoded) = 2
           => detections = << Det(0, 90, <<10, 10, 100, 100>>) >>

\* nms has run on the row of three boxes, given with the lowest confidence
\* first, and has kept the first and the third of the sorted order.
C31_Witness ==
    /\ detector.pc = "done"
    /\ detector.decoded = << Det(0, 70, <<6, 0, 10, 10>>), Det(0, 80, <<3, 0, 10, 10>>),
                             Det(0, 90, <<0, 0, 10, 10>>) >>
    /\ detections = << Det(0, 90, <<0, 0, 10, 10>>), Det(0, 70, <<6, 0, 10, 10>>) >>

\* The lowest class index among those with the highest score.
ArgMax(scores) ==
    CHOOSE c \in 0 .. Len(scores) - 1 :
        /\ scores[c + 1] = MaxScore(scores)
        /\ \A b \in 0 .. c - 1 : scores[b + 1] # MaxScore(scores)

\* C32: every detection that postprocess decoded has, for some proposal of
\* the network output, the highest class score of that proposal as its
\* confidence and the lowest class index with that score as its class id.
C32_ArgMax ==
    detector.pc \in {"nms", "done"} =>
        \A i \in 1 .. Len(detector.decoded) :
            \E k \in 1 .. Len(detector.out) :
                /\ detector.decoded[i].confidence = MaxScore(detector.out[k].scores)
                /\ detector.decoded[i].classId = ArgMax(detector.out[k].scores)

\* C33: the step that follows the publication of the detections of a
\* successful iteration adds 1 to frameCount and reads the clock; when the
\* time since the window start is at least 1 s it sets fps to the new
\* frameCount over that time, frameCount to 0 and the window start to now,
\* and otherwise it leaves fps alone.  No other step, the steps of a dropped
\* iteration among them, changes frameCount, fps or the window start.
C33_FpsAccounting ==
    [][ LET d == loop'.sinceLastLog - loop.sinceLastLog
            elapsed == loop.sinceFpsStart + d
        IN  IF mpc = "calcFps" /\ mpc' # mpc
            THEN IF elapsed >= TicksPerSecond
                 THEN /\ loop'.metrics.fps = << loop.frameCount + 1, elapsed >>
                      /\ loop'.frameCount = 0
                      /\ loop'.sinceFpsStart = 0
                 ELSE /\ loop'.metrics.fps = loop.metrics.fps
                      /\ loop'.frameCount = loop.frameCount + 1
                      /\ loop'.sinceFpsStart = elapsed
            ELSE /\ loop'.metrics.fps = loop.metrics.fps
                 /\ loop'.frameCount = loop.frameCount
                 /\ loop'.sinceFpsStart = loop.sinceFpsStart ]_vars

\* A window of one successful iteration was closed with fps 1 / 1, and the
\* next iteration was dropped: fps has kept its value.
C33_Witness ==
    /\ mpc = "dropSleep"
    /\ loop.droppedFrames = 1
    /\ loop.frameCount = 0
    /\ loop.metrics.fps = << 1, 1 >>

\* C34: the logging step of a successful iteration writes one row and
\* restarts the time since the last row when that time has reached
\* metricsInterval, and writes nothing otherwise; no other step writes a
\* row or restarts that time; so when the iteration goes to its closing
\* sleep the time since the last row is below metricsInterval.
C34_LoggingCadence ==
    /\ [](mpc = "sleep" => loop.sinceLastLog < loop.metricsInterval)
    /\ [][ IF mpc = "logMetrics" /\ mpc' # mpc
           THEN IF loop.sinceLastLog >= loop.metricsInterval
                THEN /\ logger'.rows = logger.rows + 1
                     /\ loop'.sinceLastLog = 0
                ELSE /\ logger'.rows = logger.rows
                     /\ loop'.sinceLastLog = loop.sinceLastLog
           ELSE /\ logger'.rows = logger.rows
                /\ loop'.sinceLastLog >= loop.sinceLastLog ]_vars

\* Two successful iterations have reached their logging step and exactly
\* one of them has written a row.
C34_Witness ==
    /\ mpc = "sleep"
    /\ hist.iter = 2
    /\ logger.rows = 1

\* C35: with --no-ml the detector is never called, the detections slot holds
\* the empty list, a published status has inference_time_ms,
\* detections_count and total_detections 0, and a successful iteration that
\* has reached its logging step has written all three slots.
C35_NoMl ==
    args.disableML =>
        /\ hist.detectCalls = 0
        /\ detector.pc = "idle"
        /\ currentDetections = << >>
        /\ currentStatus # << >> =>
              /\ currentStatus.inference_time_ms = 0
              /\ currentStatus.detections_count = 0
              /\ currentStatus.total_detections = 0
        /\ mpc \in {"logMetrics", "sleep"} =>
              /\ hist.frameIter = hist.iter
              /\ hist.detIter = hist.iter
              /\ hist.statIter = hist.iter
              /\ hist.pubs = << "frame", "detections", "status" >>

\* With --no-ml the second successful iteration has published its frame,
\* its empty detections and its status.
C35_Witness ==
    /\ args.disableML
    /\ mpc = "sleep"
    /\ hist.iter = 2 /\ hist.detIter = 2 /\ hist.statIter = 2
    /\ currentFrame # 0
    /\ currentStatus # << >>

\* What the three Logger calls do, step by step: a header or a row is
\* written only by a step that starts with logMutex held, and a row only
\* while the logger is initialised (none after close, until the next
\* initialize); logMetrics on a logger that is not initialised returns at
\* its test with nothing changed; initialize on an initialised logger
\* returns true with the file left as it is; close on a closed logger
\* changes nothing.
LoggerCallsBehave ==
    [][ LET c == logger.call
            Returned(lg) == [lg EXCEPT !.call.pc = "idle", !.call.logMutex = "free"]
        IN  /\ (logger'.rows # logger.rows \/ logger'.call.headers # c.headers) =>
                   c.logMutex = "main"
            /\ logger'.rows # logger.rows => logger.initialized /\ logger.isOpen
            /\ (c.pc = "logCheck" /\ ~logger.initialized) => logger' = Returned(logger)
            /\ (c.pc = "initialize" /\ logger.initialized) =>
                   logger' = [Returned(logger) EXCEPT !.call.result = TRUE]
            /\ (c.pc = "close" /\ ~logger.isOpen) => logger' = Returned(logger) ]_vars

\* C36: every write to the log file is made with logMutex held, every test
\* of initialized is made with logMutex held, no row is written after
\* close, logMetrics is a no-op on a logger that is not initialised,
\* initialize on an initialised logger returns true without reopening the
\* file, and close is idempotent.
C36_LoggerMutex ==
    /\ [](logger.call.pc \in {"initialize", "logCheck", "logWrite", "close"} =>
             logger.call.logMutex = "main")
    /\ LoggerCallsBehave

\* C37: once running has been cleared, the server thread, wherever it is
\* (in select, in the read of a request, in a send to a streaming client),
\* can go on by itself until serverLoop has returned, so that the join of
\* stop() returns: it never waits for the client.
C37_StopReturns ==
    (proc = "up" /\ ~srvRunning /\ thread = "joinable" /\ spc # "done") =>
        ENABLED ServerStep

\* C38: when main has returned and the HttpServer has been destroyed, a
\* server thread that start() created has been joined (the destruction of a
\* joinable thread handle ends the process in std::terminate); and start()
\* creates a thread only when none exists.
C38_ThreadJoined ==
    /\ mpc = "returned" => thread \in {"none", "joined"}
    /\ proc # "abort"
    /\ (mpc = "serverStart" /\ ~srvRunning) => thread = "none"

\* C39: a published status has running true and no dropped_frames entry;
\* the status slot is written only by the update step of a successful
\* iteration, so not by a dropped iteration and not by the shutdown
\* sequence; and /api/status answers with the record the slot holds,
\* whatever the pipeline thread is doing.
C39_StaleStatus ==
    /\ [](currentStatus # << >> =>
             /\ currentStatus.running
             /\ "dropped_frames" \notin DOMAIN currentStatus)
    /\ [][ /\ currentStatus' # currentStatus =>
                 /\ mpc = "updateStatusCs"
                 /\ hist'.statIter = hist.iter
           /\ (spc = "statusCs" /\ spc' # spc /\ currentStatus # << >>) =>
                 /\ srv'.response.body = currentStatus
                 /\ srv'.response.body.running ]_vars

\* After a successful and a dropped iteration the loop has been left on a
\* signal, and the server thread is in handleGetStatus with the status of
\* the successful iteration in the slot.
C39_Witness ==
    /\ mpc = "stop" /\ ~g_running
    /\ loop.droppedFrames = 1
    /\ spc = "statusCs"
    /\ currentStatus # << >>
    /\ currentStatus.running
    /\ hist.statIter = 1

\* C40: whenever the detector is about to index inputSize[0] and
\* inputSize[1] (the print of initialize, the resize of preprocess at the
\* start of detect, the scales of postprocess), inputSize has at least two
\* elements and both are positive.
C40_InputSizeChecked ==
    LET size == detector.inputSize
        Indexing == \/ detector.pc \in {"initPrint", "postprocess"}
                    \/ mpc = "detect" /\ detector.pc = "idle" /\ ~args.disableML
    IN  (proc = "up" /\ Indexing) =>
            /\ Len(size) >= 2
            /\ size[1] > 0
            /\ size[2] > 0

====
